---- MODULE Spec2Model ----
(***************************************************************************)
(* Verification model of the change-proposal core of ericmand/brain:       *)
(*   - the local Document Store (zustand) and its pending-change queue,    *)
(*   - the content locator / patch applier it uses,                        *)
(*   - the persisted (Convex) change log,                                  *)
(*   - the Entity Graph Store and its persistence layer.                   *)
(* Strings are sequences of one-character strings; offsets are 0-based as  *)
(* in the JavaScript source.                                               *)
(***************************************************************************)
EXTENDS Integers, Sequences, FiniteSets, TLC

\* ------------------------------------------------------------------------
\* Bounds of the model
\* ------------------------------------------------------------------------
MaxDocs == 2
MaxBatches == 2
MaxEdits == 1
MaxMessages == 2
MaxChanges == 3
MaxEntities == 2
MaxRels == 2
MaxCalls == 2
MaxDocOps == 5
MaxConvexOps == 5
MaxEntityOps == 5
MaxFrontmatterLines == 2
MaxLeading == 2
MaxHeadings == 3

\* ------------------------------------------------------------------------
\* JavaScript string primitives
\* ------------------------------------------------------------------------
Min(S) == CHOOSE x \in S : \A y \in S : x <= y

Max(S) == CHOOSE x \in S : \A y \in S : x >= y

\* the least / greatest offset of a set of matches, or d when nothing matches
MinOr(S, d) == IF S = {} THEN d ELSE Min(S)

MaxOr(S, d) == IF S = {} THEN d ELSE Max(S)

\* x unless it is the "not found" result -1, then d
OrElse(x, d) == IF x # -1 THEN x ELSE d

UpperChars == <<"A","B","C","D","E","F","G","H","I","J","K","L","M",
                "N","O","P","Q","R","S","T","U","V","W","X","Y","Z">>

LowerChars == <<"a","b","c","d","e","f","g","h","i","j","k","l","m",
                "n","o","p","q","r","s","t","u","v","w","x","y","z">>

DigitChars == <<"0","1","2","3","4","5","6","7","8","9">>

IsUpper(c) == \E i \in 1..26 : UpperChars[i] = c

IsLowerAlnum(c) == (\E i \in 1..26 : LowerChars[i] = c) \/ (\E i \in 1..10 : DigitChars[i] = c)

LowerChar(c) == IF IsUpper(c) THEN LowerChars[CHOOSE i \in 1..26 : UpperChars[i] = c] ELSE c

\* String.prototype.toLowerCase
ToLower(s) == [i \in 1..Len(s) |-> LowerChar(s[i])]

\* the class \s of a JavaScript regular expression, and of String.prototype.trim
IsWS(c) == c \in {" ", "\n", "\r", "\t"}

\* s.substring(a, b) for 0 <= a <= b <= s.length
Substring(s, a, b) == SubSeq(s, a + 1, b)

\* s.slice(a) / s.substring(a)
SliceFrom(s, a) == SubSeq(s, a + 1, Len(s))

\* pat occurs in s at 0-based offset p
OccursAt(s, p, pat) ==
    /\ p >= 0
    /\ p + Len(pat) <= Len(s)
    /\ \A k \in 1..Len(pat) : s[p + k] = pat[k]

\* s.startsWith(pat)
StartsWith(s, pat) == OccursAt(s, 0, pat)

\* s.indexOf(pat, from)
IndexOfFrom(s, pat, from) ==
    MinOr({i \in from..(Len(s) - Len(pat)) : OccursAt(s, i, pat)}, -1)

\* s.indexOf(pat)
IndexOf(s, pat) == IndexOfFrom(s, pat, 0)

\* s.lastIndexOf(pat)
LastIndexOf(s, pat) ==
    MaxOr({i \in 0..(Len(s) - Len(pat)) : OccursAt(s, i, pat)}, -1)

\* s.includes(pat)
Includes(s, pat) == IndexOf(s, pat) # -1

\* s.replace(pat, rep) with a string pattern: the first occurrence only
Splice(s, i, n, rep) ==
    IF i = -1 THEN s ELSE Substring(s, 0, i) \o rep \o SliceFrom(s, i + n)

ReplaceFirst(s, pat, rep) == Splice(s, IndexOf(s, pat), Len(pat), rep)

\* s.trim()
Trim(s) ==
    LET N == {i \in 1..Len(s) : ~IsWS(s[i])}
    IN  IF N = {} THEN <<>> ELSE SubSeq(s, Min(N), Max(N))

\* s.endsWith(pat)
EndsWith(s, pat) == OccursAt(s, Len(s) - Len(pat), pat)

\* the value of a decimal digit character, 0 for any other character
DigitVal(c) == IF \E i \in 1..10 : DigitChars[i] = c
               THEN (CHOOSE i \in 1..10 : DigitChars[i] = c) - 1
               ELSE 0

\* String(n) for 0 <= n <= 99
NatToStr(n) == IF n < 10 THEN <<DigitChars[n + 1]>>
               ELSE <<DigitChars[(n \div 10) + 1], DigitChars[(n % 10) + 1]>>

\* ------------------------------------------------------------------------
\* Frontmatter (RightPane.tsx: parseFrontmatter, serializeDocumentContent)
\* ------------------------------------------------------------------------
\* the value null / undefined of a string-typed field
NullStr == <<"<null>">>

Dashes == <<"-", "-", "-">>

\* first offset >= from that holds no whitespace character (end of a \s* run)
SkipWS(s, from) ==
    MinOr({i \in from..(Len(s) - 1) : ~IsWS(s[i + 1])}, Len(s))

\* smallest offset g >= from where \r?\n--- matches (end of the lazy group)
ClosingAt(s, from) ==
    MinOr({g \in from..Len(s) :
              \/ OccursAt(s, g, <<"\n">> \o Dashes)
              \/ OccursAt(s, g, <<"\r", "\n">> \o Dashes)}, -1)

\* raw.split(/\r?\n/)
RECURSIVE SplitLines(_)
RECURSIVE SplitAt(_, _)
\* i is the offset of the first newline of s, or -1
SplitAt(s, i) ==
    IF i = -1 THEN <<s>>
    ELSE <<Substring(s, 0, IF i > 0 /\ s[i] = "\r" THEN i - 1 ELSE i)>>
             \o SplitLines(SliceFrom(s, i + 1))

SplitLines(s) == SplitAt(s, IndexOf(s, <<"\n">>))

EmptyMap == [k \in {} |-> <<>>]

\* the loop over the lines of the raw block: later lines override earlier
\* if (key) frontmatter[key] = value
FrontmatterEntry(acc, key, value) ==
    IF key = <<>> THEN acc
    ELSE [k \in (DOMAIN acc) \cup {key} |-> IF k = key THEN value ELSE acc[k]]

\* one line of the raw block; sep is the offset of its first colon
FrontmatterLine(acc, trimmed, sep) ==
    IF trimmed = <<>> \/ StartsWith(trimmed, <<"#">>) \/ sep = -1 THEN acc
    ELSE FrontmatterEntry(acc, Trim(Substring(trimmed, 0, sep)),
                          Trim(SliceFrom(trimmed, sep + 1)))

RECURSIVE FrontmatterOfLines(_, _)
FrontmatterOfLines(lines, acc) ==
    IF lines = <<>> THEN acc
    ELSE FrontmatterOfLines(Tail(lines),
             FrontmatterLine(acc, Trim(Head(lines)),
                             IndexOf(Trim(Head(lines)), <<":">>)))

NoFrontmatter(content) ==
    [body |-> content, frontmatter |-> EmptyMap, frontmatterRaw |-> NullStr]

\* content.match(/^---\s*\r?\n([\s\S]*?)\r?\n---\s*\r?\n?/): the greedy \s*
\* after the opening dashes backtracks from its longest run, so the group
\* starts after the last newline of that run from which a closing line is
\* still found; the \s* after the closing dashes takes the whole run.
\* the match whose group spans the offsets g0..c
FrontmatterBetween(content, g0, c) ==
    [body |-> SliceFrom(content,
                  SkipWS(content, c + (IF OccursAt(content, c, <<"\n">> \o Dashes)
                                       THEN 4 ELSE 5))),
     frontmatter |-> FrontmatterOfLines(SplitLines(Substring(content, g0, c)), EmptyMap),
     frontmatterRaw |-> Substring(content, g0, c)]

\* g0 is the offset where the group starts, or -1 when the regex fails
FrontmatterFrom(content, g0) ==
    IF g0 = -1 THEN NoFrontmatter(content)
    ELSE FrontmatterBetween(content, g0, ClosingAt(content, g0))

parseFrontmatter(content) ==
    IF ~StartsWith(content, Dashes) THEN NoFrontmatter(content)
    ELSE FrontmatterFrom(content,
             MaxOr({g \in 4..SkipWS(content, 3) :
                       content[g] = "\n" /\ ClosingAt(content, g) # -1}, -1))

\* a null or empty raw block is falsy
serializeDocumentContent(frontmatterRaw, body) ==
    IF frontmatterRaw = NullStr \/ frontmatterRaw = <<>> THEN body
    ELSE LET normalizedBody == IF StartsWith(body, <<"\n">>) THEN SliceFrom(body, 1) ELSE body
         IN  Dashes \o <<"\n">> \o frontmatterRaw \o <<"\n">> \o Dashes \o <<"\n">> \o normalizedBody

\* ------------------------------------------------------------------------
\* Content locator (RightPane.tsx: findInsertionPoint, findAndReplace)
\* ------------------------------------------------------------------------
IsLevelChar(c, maxLevel) == DigitVal(c) >= 1 /\ DigitVal(c) <= maxLevel

\* [^<]*<\/h[1-6]> : k is the offset of the first "<" after the opening tag
HeadingCloseAt(s, k) ==
    IF /\ k # -1
       /\ k + 5 <= Len(s)
       /\ s[k + 2] = "/"
       /\ LowerChar(s[k + 3]) = "h"
       /\ IsLevelChar(s[k + 4], 6)
       /\ s[k + 5] = ">"
    THEN k + 5 ELSE -1

\* [^>]*> : j is the offset of the ">" that ends the opening tag
HeadingCloseAfter(s, j) ==
    IF j = -1 THEN -1 ELSE HeadingCloseAt(s, IndexOfFrom(s, <<"<">>, j + 1))

\* end offset of a match of /<h[1-6][^>]*>[^<]*<\/h[1-6]>/i starting at i, or -1
HeadingEnd(s, i) ==
    IF ~(/\ i + 3 <= Len(s)
         /\ s[i + 1] = "<"
         /\ LowerChar(s[i + 2]) = "h"
         /\ IsLevelChar(s[i + 3], 6))
    THEN -1
    ELSE HeadingCloseAfter(s, IndexOfFrom(s, <<">">>, i + 3))

\* headingRegex.exec(content) with lastIndex = from: start of the next match
NextHeading(s, from) ==
    MinOr({i \in from..(Len(s) - 1) : HeadingEnd(s, i) # -1}, -1)

\* new RegExp(`<h[1-${level}][^>]*>`, "gi").exec(content) from lastIndex
NextHeadingOfLevel(s, from, level) ==
    MinOr({i \in from..(Len(s) - 4) :
              /\ s[i + 1] = "<"
              /\ LowerChar(s[i + 2]) = "h"
              /\ IsLevelChar(s[i + 3], level)
              /\ IndexOfFrom(s, <<">">>, i + 3) # -1}, -1)

\* the while loop over the headings: start of the first heading at or after
\* `from` whose lower-cased tag text includes searchTerm, or -1
RECURSIVE FirstMatchingHeading(_, _, _)
RECURSIVE MatchingHeadingFrom(_, _, _)
\* one turn of the loop: i is the start of the heading the regex found, or -1
MatchingHeadingFrom(s, searchTerm, i) ==
    IF i = -1 THEN -1
    ELSE IF Includes(ToLower(Substring(s, i, HeadingEnd(s, i))), searchTerm) THEN i
    ELSE FirstMatchingHeading(s, searchTerm, HeadingEnd(s, i))

FirstMatchingHeading(s, searchTerm, from) ==
    MatchingHeadingFrom(s, searchTerm, NextHeading(s, from))

\* offset where the section of the heading starting at h ends, -1 for h = -1
SectionEnd(s, h) ==
    IF h = -1 THEN -1
    ELSE OrElse(NextHeadingOfLevel(s, HeadingEnd(s, h), DigitVal(s[h + 3])), Len(s))

kwAfter == <<"a","f","t","e","r">>

kwBefore == <<"b","e","f","o","r","e">>

kwEnd == <<"e","n","d">>

kwBeginning == <<"b","e","g","i","n","n","i","n","g">>

kwStart == <<"s","t","a","r","t">>

kwReplace == <<"r","e","p","l","a","c","e">>

kwDelete == <<"d","e","l","e","t","e">>

kwThe == <<"t","h","e">>

\* content.search(/<\/h[1-6]>/i)
FirstHeadingClose(s) ==
    MinOr({i \in 0..(Len(s) - 5) :
              /\ s[i + 1] = "<"
              /\ s[i + 2] = "/"
              /\ LowerChar(s[i + 3]) = "h"
              /\ IsLevelChar(s[i + 4], 6)
              /\ s[i + 5] = ">"}, -1)

\* the "after" rule with a section that ends at the next heading of any level
AfterRuleAnyLevel(content, lowerTarget) ==
    IF ~Includes(lowerTarget, kwAfter) THEN -1
    ELSE LET h == FirstMatchingHeading(content,
                      Trim(ReplaceFirst(lowerTarget, kwAfter, <<>>)), 0)
         IN  IF h = -1 THEN -1
             ELSE OrElse(NextHeadingOfLevel(content, HeadingEnd(content, h), 6),
                         Len(content))

\* result of the "after" rule, -1 when it falls through
AfterRule(content, lowerTarget) ==
    IF ~Includes(lowerTarget, kwAfter) THEN -1
    ELSE SectionEnd(content,
             FirstMatchingHeading(content,
                 Trim(ReplaceFirst(lowerTarget, kwAfter, <<>>)), 0))

\* result of the "before" rule, -1 when it falls through
\* index is the offset of the search term in the lower-cased content
TagStartBefore(content, index) ==
    IF index = -1 THEN -1
    ELSE OrElse(LastIndexOf(Substring(content, 0, index), <<"<">>), index)

BeforeRule(content, lowerTarget) ==
    IF ~Includes(lowerTarget, kwBefore) THEN -1
    ELSE TagStartBefore(content,
             IndexOf(ToLower(content), Trim(ReplaceFirst(lowerTarget, kwBefore, <<>>))))

\* the "end" and "beginning" / "start" rules and the default
KeywordRule(content, lowerTarget) ==
    IF Includes(lowerTarget, kwEnd) THEN Len(content)
    ELSE IF Includes(lowerTarget, kwBeginning) \/ Includes(lowerTarget, kwStart)
    THEN (IF FirstHeadingClose(content) # -1 THEN FirstHeadingClose(content) + 5 ELSE 0)
    ELSE Len(content)

\* findInsertionPoint whose "after" and "before" rules return the document
\* length when their search finds nothing
findInsertionPointNoFallThrough(content, target) ==
    IF Includes(ToLower(target), kwAfter)
    THEN OrElse(AfterRule(content, ToLower(target)), Len(content))
    ELSE IF Includes(ToLower(target), kwBefore)
    THEN OrElse(BeforeRule(content, ToLower(target)), Len(content))
    ELSE KeywordRule(content, ToLower(target))

findInsertionPoint(content, target) ==
    OrElse(AfterRule(content, ToLower(target)),
           OrElse(BeforeRule(content, ToLower(target)),
                  KeywordRule(content, ToLower(target))))

\* ReplaceSection that appends without the newline
ReplaceSectionOrConcat(content, h, newContent) ==
    IF h # -1
    THEN Substring(content, 0, h) \o newContent \o SliceFrom(content, SectionEnd(content, h))
    ELSE content \o newContent

\* h is the start of the heading of the section to replace, or -1
ReplaceSection(content, h, newContent) ==
    IF h # -1
    THEN Substring(content, 0, h) \o newContent \o SliceFrom(content, SectionEnd(content, h))
    ELSE content \o <<"\n">> \o newContent

findAndReplace(content, target, newContent) ==
    ReplaceSection(content,
        IF Includes(ToLower(target), kwReplace) \/ Includes(ToLower(target), kwDelete)
        THEN FirstMatchingHeading(content,
                 Trim(ReplaceFirst(ReplaceFirst(ReplaceFirst(
                     ToLower(target), kwReplace, <<>>), kwDelete, <<>>), kwThe, <<>>)), 0)
        ELSE -1,
        newContent)

\* ------------------------------------------------------------------------
\* Patch applier (RightPane.tsx: applyChangeToContent)
\* ------------------------------------------------------------------------
\* an insert that overwrites the character at the insertion point
InsertAtReplacing(content, insertPoint, text) ==
    Substring(content, 0, insertPoint) \o <<"\n">> \o text \o SliceFrom(content, insertPoint + 1)

InsertAt(content, insertPoint, text) ==
    Substring(content, 0, insertPoint) \o <<"\n">> \o text \o SliceFrom(content, insertPoint)

applyChangeToContent(content, change) ==
    CASE change.operation = "insert" ->
            InsertAt(content, findInsertionPoint(content, change.target), change.content)
      [] change.operation = "replace" ->
            findAndReplace(content, change.target, change.content)
      [] change.operation = "delete" ->
            findAndReplace(content, change.target, <<>>)
      [] OTHER -> content \o <<"\n">> \o change.content

\* ------------------------------------------------------------------------
\* Slug and path of a new or renamed document
\* ------------------------------------------------------------------------
\* .replace(/[^a-z0-9]+/g, "-"): every maximal run of other characters
\* becomes one hyphen
RECURSIVE CollapseRuns(_)
CollapseRuns(s) ==
    IF s = <<>> THEN <<>>
    ELSE IF IsLowerAlnum(Head(s)) THEN <<Head(s)>> \o CollapseRuns(Tail(s))
    ELSE LET N == {i \in 1..Len(s) : IsLowerAlnum(s[i])}
         IN  IF N = {} THEN <<"-">>
             ELSE <<"-">> \o CollapseRuns(SubSeq(s, Min(N), Len(s)))

\* .replace(/(^-|-$)/g, "")
StripHyphens(s) ==
    LET a == IF StartsWith(s, <<"-">>) THEN SliceFrom(s, 1) ELSE s
    IN  IF a # <<>> /\ a[Len(a)] = "-" THEN SubSeq(a, 1, Len(a) - 1) ELSE a

Slugify(title) == StripHyphens(CollapseRuns(ToLower(title)))

DocsRoot == <<"/","d","o","c","s","/">>

DotMd == <<".","m","d">>

\* ------------------------------------------------------------------------
\* State
\* ------------------------------------------------------------------------
VARIABLES
    docStore,      \* the zustand state of useDocumentStore
    nextDocId,     \* number of document ids generated so far
    clock,         \* Date.now() as last read by setPendingChanges
    batches,       \* number of setPendingChanges calls so far
    edits,         \* number of direct edits, renames and moves so far
    docDb,         \* the Turso table documents
    tursoUp,       \* whether the Turso database answers
    logged,        \* the writes the latest step saw fail and logged
    convexDb,      \* the Convex tables messages, changes, changeResolutions
    entityStore,   \* the zustand state of useEntityStore
    entityDb,      \* the Turso tables entities and relationships
    calls,         \* entity store calls waiting for their database reply
    nextEntityId,  \* number of entity ids generated so far
    nextRelId,     \* number of relationship ids generated so far
    applied,       \* the latest application of a content function, with its result
    chat,          \* the chat pane's handleSubmit: where it is and what it holds
    pendingMutations, \* lib/ai.ts: the entity mutations queued by tool calls
    inflight,      \* turso.updateDocument calls that have not finished, in start order
    versions,      \* the Turso table document_versions
    lastUpdate,    \* the latest UPDATE of a documents row: the content it replaced
    writeFailed,   \* whether a statement of a turso.updateDocument call has failed
    view,          \* the Convex tables as the panes' useQuery results show them
    resolving,     \* Apply handlers that still await their resolve mutations
    executions,    \* per persisted change: how often its store mutation was executed
    meetingsData,  \* desktop: the in-memory meetings data
    pastMeetingsByDate, \* desktop: the past meetings that are no calendar entries, by date
    savedData,     \* desktop: the meetings data the main process has saved
    saving,        \* desktop: updateMeetingsData calls that await their save
    serial,        \* the meetings data if the saved updates had run one after another
    saveResult,    \* the result the latest finished updateMeetingsData call returned
    ops,           \* number of operations started so far
    raised         \* the error the latest step raised to a caller, or NoError

docVars == <<docStore, nextDocId, clock, batches, edits, docDb, tursoUp, logged>>

convexVars == <<convexDb>>

entityVars == <<entityStore, entityDb, calls, nextEntityId, nextRelId>>

chatVars == <<chat, pendingMutations>>

writeVars == <<inflight, versions, lastUpdate, writeFailed>>

applyVars == <<view, resolving, executions>>

meetingVars == <<meetingsData, pastMeetingsByDate, savedData, saving, serial, saveResult>>

appVars == <<chatVars, writeVars, applyVars, meetingVars>>

\* what the actions of the chat pane leave alone, and likewise below
besidesChat == <<writeVars, applyVars, meetingVars>>

besidesWrites == <<chatVars, applyVars, meetingVars>>

besidesApply == <<chatVars, writeVars, meetingVars>>

besidesMeetings == <<chatVars, writeVars, applyVars>>

vars == <<docVars, convexVars, entityVars, applied, appVars, ops, raised>>

NoError == "none"

\* a caller starts an operation: a behaviour holds at most max of them
Invoke(max) == ops < max /\ ops' = ops + 1 /\ raised' = NoError

\* an operation that is started and rejects with error
InvokeRaising(max, error) == ops < max /\ ops' = ops + 1 /\ raised' = error

\* a step of an operation started earlier, which raises nothing
Continue == ops' = ops /\ raised' = NoError

\* ------------------------------------------------------------------------
\* Document Store (RightPane.tsx: useDocumentStore)
\* ------------------------------------------------------------------------
\* documentId "new", the id null, and an id no document ever had
NewDoc == 0

NoDoc == -1

GhostDoc == MaxDocs + 1

NoChange == <<-1, -1>>

KeysOf(S) == {S.docKeys[i] : i \in 1..Len(S.docKeys)}

HasDoc(S, id) == id \in KeysOf(S)

RemoveKey(keys, id) == SelectSeq(keys, LAMBDA k : k # id)

\* { ...state.documents, [id]: doc }: an existing key keeps its position
PutDoc(S, id, doc) ==
    [S EXCEPT !.documents = [k \in KeysOf(S) \cup {id} |->
                                IF k = id THEN doc ELSE S.documents[k]],
              !.docKeys = IF HasDoc(S, id) THEN S.docKeys ELSE Append(S.docKeys, id)]

\* the synchronous part of updateDocument: a missing id gets an entry that
\* has no id, path or title
UpdateWithParsed(S, documentId, content, parsed) ==
    LET exists == HasDoc(S, documentId)
        hasNewFrontmatter == parsed.frontmatterRaw # NullStr
        frontmatterRaw == IF hasNewFrontmatter THEN parsed.frontmatterRaw
                          ELSE IF exists THEN S.documents[documentId].frontmatterRaw
                          ELSE NullStr
        frontmatter == IF hasNewFrontmatter /\ parsed.frontmatterRaw # <<>>
                       THEN parsed.frontmatter
                       ELSE IF exists THEN S.documents[documentId].frontmatter
                       ELSE EmptyMap
        body == IF hasNewFrontmatter THEN parsed.body ELSE content
        base == IF exists THEN S.documents[documentId]
                ELSE [id |-> NoDoc, path |-> NullStr, title |-> NullStr,
                      content |-> NullStr, frontmatter |-> EmptyMap,
                      frontmatterRaw |-> NullStr]
    IN  PutDoc(S, documentId, [base EXCEPT !.content = body,
                                           !.frontmatter = frontmatter,
                                           !.frontmatterRaw = frontmatterRaw])

\* updateDocument that takes the frontmatter of the incoming content even when
\* it carries none
updateDocumentDropsFrontmatter(S, documentId, content) ==
    UpdateWithParsed([S EXCEPT !.documents =
                         [k \in KeysOf(S) |->
                             IF k = documentId
                             THEN [S.documents[k] EXCEPT !.frontmatter = EmptyMap,
                                                         !.frontmatterRaw = NullStr]
                             ELSE S.documents[k]]],
                     documentId, content, parseFrontmatter(content))

updateDocument(S, documentId, content) ==
    UpdateWithParsed(S, documentId, content, parseFrontmatter(content))

\* the record createDocument stores
NewDocRecord(id, title, parsed) ==
    [id |-> id, path |-> DocsRoot \o Slugify(title) \o DotMd, title |-> title,
     content |-> parsed.body, frontmatter |-> parsed.frontmatter,
     frontmatterRaw |-> parsed.frontmatterRaw]

\* createDocument that forgets to make the new document current
createDocumentKeepsCurrent(S, id, title, content) ==
    [PutDoc(S, id, NewDocRecord(id, title, parseFrontmatter(content)))
        EXCEPT !.lastCreatedDocumentId = id]

\* the synchronous part of createDocument; id is the generated document id
createDocument(S, id, title, content) ==
    [PutDoc(S, id, NewDocRecord(id, title, parseFrontmatter(content)))
        EXCEPT !.currentDocumentId = id, !.lastCreatedDocumentId = id]

\* deleteDocument that always makes the first remaining document current
deleteDocumentResetsCurrent(S, documentId) ==
    [S EXCEPT !.documents = [k \in KeysOf(S) \ {documentId} |-> S.documents[k]],
              !.docKeys = RemoveKey(S.docKeys, documentId),
              !.currentDocumentId =
                  IF RemoveKey(S.docKeys, documentId) # <<>>
                  THEN RemoveKey(S.docKeys, documentId)[1] ELSE NoDoc]

deleteDocument(S, documentId) ==
    LET rest == RemoveKey(S.docKeys, documentId)
    IN  [S EXCEPT !.documents = [k \in KeysOf(S) \ {documentId} |-> S.documents[k]],
                  !.docKeys = rest,
                  !.currentDocumentId =
                      IF S.currentDocumentId = documentId
                      THEN (IF rest # <<>> THEN rest[1] ELSE NoDoc)
                      ELSE S.currentDocumentId]

\* updates.title / updates.path are NullStr when the key is absent
updateDocumentMetadata(S, documentId, updates) ==
    IF ~HasDoc(S, documentId) THEN S
    ELSE LET doc == S.documents[documentId]
         IN  PutDoc(S, documentId,
                 [doc EXCEPT !.title = IF updates.title # NullStr THEN updates.title ELSE @,
                             !.path = IF updates.path # NullStr THEN updates.path ELSE @])

\* setPendingChanges that appends the batch to the queue
setPendingChangesAppends(S, changes, now) ==
    [S EXCEPT !.pendingChanges = @ \o
        [i \in 1..Len(changes) |->
            [id |-> <<now, i - 1>>,
             documentId |-> changes[i].documentId,
             operation |-> changes[i].operation,
             target |-> changes[i].target,
             content |-> changes[i].content,
             status |-> "pending"]]]

\* ids are `change-${Date.now()}-${index}`, modelled as <<now, index>>
setPendingChanges(S, changes, now) ==
    [S EXCEPT !.pendingChanges =
        [i \in 1..Len(changes) |->
            [id |-> <<now, i - 1>>,
             documentId |-> changes[i].documentId,
             operation |-> changes[i].operation,
             target |-> changes[i].target,
             content |-> changes[i].content,
             status |-> "pending"]]]

\* pendingChanges.find((c) => c.id === changeId): index of the first, or 0
FindChange(S, changeId) ==
    LET I == {i \in 1..Len(S.pendingChanges) : S.pendingChanges[i].id = changeId}
    IN  IF I = {} THEN 0 ELSE Min(I)

\* pendingChanges.map((c) => c.id === changeId ? { ...c, status } : c)
MarkChange(S, changeId, status) ==
    [S EXCEPT !.pendingChanges =
        [i \in 1..Len(S.pendingChanges) |->
            IF S.pendingChanges[i].id = changeId
            THEN [S.pendingChanges[i] EXCEPT !.status = status]
            ELSE S.pendingChanges[i]]]

\* applyChange whose delete branch edits the content of the target (the
\* section named by the target) and keeps the document
ApplyBranchDeletesSection(S, change, id) ==
    IF change.operation = "create" \/ change.documentId = NewDoc
    THEN createDocument(S, id, change.target, change.content)
    ELSE IF HasDoc(S, change.documentId)
    THEN updateDocument(S, change.documentId,
             applyChangeToContent(S.documents[change.documentId].content, change))
    ELSE S

\* applyChange whose update branch edits a missing target as an empty one
ApplyBranchEditsMissing(S, change, id) ==
    IF change.operation = "create" \/ change.documentId = NewDoc
    THEN createDocument(S, id, change.target, change.content)
    ELSE IF change.operation = "delete"
    THEN deleteDocument(S, change.documentId)
    ELSE updateDocument(S, change.documentId,
             applyChangeToContent(
                 IF HasDoc(S, change.documentId)
                 THEN S.documents[change.documentId].content ELSE <<>>,
                 change))

\* the store after the create / delete / update branch of applyChange;
\* id is the id createDocument would generate
ApplyBranch(S, change, id) ==
    IF change.operation = "create" \/ change.documentId = NewDoc
    THEN createDocument(S, id, change.target, change.content)
    ELSE IF change.operation = "delete"
    THEN deleteDocument(S, change.documentId)
    ELSE IF HasDoc(S, change.documentId)
    THEN updateDocument(S, change.documentId,
             applyChangeToContent(S.documents[change.documentId].content, change))
    ELSE S

\* applyChange on the pair <<store, next document id>>
applyChange(P, changeId) ==
    LET S == P[1]
        i == FindChange(S, changeId)
    IN  IF i = 0 \/ S.pendingChanges[i].status # "pending" THEN P
        ELSE LET change == S.pendingChanges[i]
                 creates == change.operation = "create" \/ change.documentId = NewDoc
             IN  <<MarkChange(ApplyBranch(S, change, P[2] + 1), changeId, "applied"),
                   IF creates THEN P[2] + 1 ELSE P[2]>>

dismissChange(S, changeId) ==
    MarkChange(S, changeId, "dismissed")

RECURSIVE ApplyEach(_, _)
ApplyEach(P, ids) ==
    IF ids = <<>> THEN P ELSE ApplyEach(applyChange(P, Head(ids)), Tail(ids))

\* applyAllChanges that walks the pending changes from the last to the first
applyAllChangesReversed(P) ==
    LET pending == SelectSeq(P[1].pendingChanges, LAMBDA c : c.status = "pending")
    IN  ApplyEach(P, [i \in 1..Len(pending) |-> pending[Len(pending) + 1 - i].id])

\* the pending changes are filtered once, then applyChange runs for each id
applyAllChanges(P) ==
    LET pending == SelectSeq(P[1].pendingChanges, LAMBDA c : c.status = "pending")
    IN  ApplyEach(P, [i \in 1..Len(pending) |-> pending[i].id])

dismissAllChanges(S) ==
    [S EXCEPT !.pendingChanges =
        [i \in 1..Len(S.pendingChanges) |->
            IF S.pendingChanges[i].status = "pending"
            THEN [S.pendingChanges[i] EXCEPT !.status = "dismissed"]
            ELSE S.pendingChanges[i]]]

\* ------------------------------------------------------------------------
\* Inputs of the Document Store operations
\* ------------------------------------------------------------------------
tEnd == <<"e","n","d">>

tReplaceT == <<"r","e","p","l","a","c","e"," ","T">>

tDeleteT == <<"d","e","l","e","t","e"," ","T">>

titleT == <<"T">>

titleUntitled == <<"U","n","t","i","t","l","e","d">>

contentA == <<"A">>

contentB == <<"B">>

headingT == <<"<","h","1",">","T","<","/","h","1",">">>

\* a body under a frontmatter block
withFrontmatter == <<"-","-","-","\n","k",":"," ","v","\n","-","-","-","\n","b">>

Change(documentId, operation, target, content) ==
    [documentId |-> documentId, operation |-> operation,
     target |-> target, content |-> content]

\* batches the assistant may propose against document d
BatchesFor(d) ==
    {<<Change(d, "insert", tEnd, contentA), Change(d, "insert", tEnd, contentB)>>,
     <<Change(d, "replace", tReplaceT, contentB)>>,
     <<Change(d, "replace", tReplaceT, withFrontmatter)>>,
     <<Change(d, "delete", tDeleteT, <<>>)>>}

\* batches that carry the sentinel documentId "new"
CreateBatches ==
    {<<Change(NewDoc, "create", titleT, headingT)>>,
     <<Change(NewDoc, "create", titleUntitled, withFrontmatter)>>,
     <<Change(NewDoc, "insert", titleT, contentA)>>}

\* ids a caller can hold: every id generated so far, and one never generated
KnownDocIds == (1..nextDocId) \cup {GhostDoc}

ChangeIds(S) == {S.pendingChanges[i].id : i \in 1..Len(S.pendingChanges)}

\* ------------------------------------------------------------------------
\* Actions of the Document Store
\* ------------------------------------------------------------------------
DocInit ==
    /\ docStore = [documents |-> [k \in {} |-> <<>>],
                   docKeys |-> <<>>,
                   currentDocumentId |-> NoDoc,
                   lastCreatedDocumentId |-> NoDoc,
                   pendingChanges |-> <<>>]
    /\ nextDocId = 0
    /\ clock = 0
    /\ batches = 0
    /\ edits = 0
    /\ docDb = [k \in {} |-> <<>>]
    /\ tursoUp = TRUE
    /\ logged = <<>>

\* ------------------------------------------------------------------------
\* Persistence of the Document Store (lib/turso: documents)
\* ------------------------------------------------------------------------
\* the content column of a document
RowContent(doc) == serializeDocumentContent(doc.frontmatterRaw, doc.content)

\* turso.createDocument(id, path, title, serialized)
CreateWrite(T, id) ==
    [kind |-> "create", id |-> id, path |-> T.documents[id].path,
     title |-> T.documents[id].title, content |-> RowContent(T.documents[id])]

\* turso.updateDocument(documentId, serialized)
UpdateWrite(T, id) ==
    [kind |-> "update", id |-> id, path |-> NullStr, title |-> NullStr,
     content |-> RowContent(T.documents[id])]

\* turso.deleteDocument(documentId)
DeleteWrite(id) ==
    [kind |-> "delete", id |-> id, path |-> NullStr, title |-> NullStr,
     content |-> NullStr]

\* turso.updateDocumentMetadata(documentId, updates)
MetadataWrite(id, updates) ==
    [kind |-> "metadata", id |-> id, path |-> updates.path, title |-> updates.title,
     content |-> NullStr]

\* if (updates.title) / if (updates.path): the field is in the statement
Given(field) == field # NullStr /\ field # <<>>

\* the statement of w throws: the database is down, an INSERT repeats the
\* primary key or the UNIQUE path, or an UPDATE gives a row the path of
\* another row
WriteFails(db, w, up) ==
    \/ ~up
    \/ /\ w.kind = "create"
       /\ \/ w.id \in DOMAIN db
          \/ \E k \in DOMAIN db : db[k].path = w.path
    \/ /\ w.kind = "metadata"
       /\ Given(w.path)
       /\ w.id \in DOMAIN db
       /\ \E k \in DOMAIN db \ {w.id} : db[k].path = w.path

\* the table after the statement of w
ApplyWrite(db, w) ==
    CASE w.kind = "create" ->
            [k \in DOMAIN db \cup {w.id} |->
                IF k = w.id THEN [path |-> w.path, title |-> w.title, content |-> w.content]
                ELSE db[k]]
      [] w.kind = "update" ->
            [k \in DOMAIN db |-> IF k = w.id THEN [db[k] EXCEPT !.content = w.content]
                                 ELSE db[k]]
      [] w.kind = "delete" -> [k \in DOMAIN db \ {w.id} |-> db[k]]
      [] OTHER ->
            [k \in DOMAIN db |->
                IF k = w.id /\ (Given(w.title) \/ Given(w.path))
                THEN [db[k] EXCEPT !.title = IF Given(w.title) THEN w.title ELSE @,
                                   !.path = IF Given(w.path) THEN w.path ELSE @]
                ELSE db[k]]

\* try { await turso... } catch (error) { console.error(...) } for each write
\* in turn; R is the pair <<table, failed writes>>
RECURSIVE PersistAll(_, _, _)
PersistAll(R, writes, up) ==
    IF writes = <<>> THEN R
    ELSE PersistAll(IF WriteFails(R[1], Head(writes), up)
                    THEN <<R[1], Append(R[2], Head(writes))>>
                    ELSE <<ApplyWrite(R[1], Head(writes)), R[2]>>,
                    Tail(writes), up)

\* a catch block that logs and throws the error again
CaughtRethrows(failures) ==
    IF failures = <<>> THEN NoError ELSE "Failed to persist"

\* what the catch blocks let through to the caller
Caught(failures) == NoError

\* the writes of one store operation, and what its caller sees
PersistAndReturn(writes) ==
    \E R \in {PersistAll(<<docDb, <<>>>>, writes, tursoUp)} :
        /\ docDb' = R[1]
        /\ logged' = R[2]
        /\ InvokeRaising(MaxDocOps, Caught(R[2]))
        /\ UNCHANGED tursoUp

\* a store operation that writes nothing
ReturnWithoutWrite ==
    /\ Invoke(MaxDocOps)
    /\ logged' = <<>>
    /\ UNCHANGED <<docDb, tursoUp>>

\* the write applyChange issues for changeId, if any; Q is the pair after
\* applyChange(P, changeId)
WritesOfChange(P, Q, changeId) ==
    LET i == FindChange(P[1], changeId)
    IN  IF i = 0 THEN <<>>
        ELSE IF P[1].pendingChanges[i].status # "pending" THEN <<>>
        ELSE IF \/ P[1].pendingChanges[i].operation = "create"
                \/ P[1].pendingChanges[i].documentId = NewDoc
        THEN <<CreateWrite(Q[1], P[2] + 1)>>
        ELSE IF P[1].pendingChanges[i].operation = "delete"
        THEN <<DeleteWrite(P[1].pendingChanges[i].documentId)>>
        ELSE IF HasDoc(P[1], P[1].pendingChanges[i].documentId)
        THEN <<UpdateWrite(Q[1], P[1].pendingChanges[i].documentId)>>
        ELSE <<>>

\* the writes of applyChange for each id in turn
RECURSIVE WritesEach(_, _)
RECURSIVE WritesEachVia(_, _, _)
\* Q is the pair after applyChange(P, Head(ids))
WritesEachVia(P, Q, ids) ==
    WritesOfChange(P, Q, Head(ids)) \o WritesEach(Q, Tail(ids))

WritesEach(P, ids) ==
    IF ids = <<>> THEN <<>>
    ELSE WritesEachVia(P, applyChange(P, Head(ids)), ids)

\* the ids of the pending changes, in queue order
PendingIds(S) ==
    LET pending == SelectSeq(S.pendingChanges, LAMBDA c : c.status = "pending")
    IN  [i \in 1..Len(pending) |-> pending[i].id]

\* the database stops answering, and answers again
TursoFails ==
    /\ tursoUp
    /\ tursoUp' = FALSE
    /\ UNCHANGED <<docStore, nextDocId, clock, batches, edits, docDb, logged,
                   convexVars, entityVars, applied, appVars, ops, raised>>

TursoRecovers ==
    /\ ~tursoUp
    /\ tursoUp' = TRUE
    /\ UNCHANGED <<docStore, nextDocId, clock, batches, edits, docDb, logged,
                   convexVars, entityVars, applied, appVars, ops, raised>>

\* handleNewDocument: "Untitled", "Untitled 2", ... until the title is free
RECURSIVE FreeTitle(_, _, _)
FreeTitle(existingTitles, title, suffix) ==
    IF title \notin existingTitles THEN title
    ELSE FreeTitle(existingTitles, titleUntitled \o <<" ">> \o NatToStr(suffix), suffix + 1)

NewDocumentContent(title) ==
    <<"<","h","1",">">> \o title \o <<"<","/","h","1",">","\n","<","p",">","<","/","p",">">>

HandleNewDocument ==
    /\ nextDocId < MaxDocs
    /\ LET existingTitles == {docStore.documents[k].title : k \in KeysOf(docStore)}
           title == FreeTitle(existingTitles, titleUntitled, 2)
       IN  \E T \in {createDocument(docStore, nextDocId + 1, title,
                                     NewDocumentContent(title))} :
              /\ docStore' = T
              /\ PersistAndReturn(<<CreateWrite(T, nextDocId + 1)>>)
    /\ nextDocId' = nextDocId + 1
    /\ UNCHANGED <<clock, batches, edits, convexVars, entityVars, applied, appVars>>

\* every call reads a later Date.now()
SetPendingChangesWith(changes) ==
    /\ batches < MaxBatches
    /\ docStore' = setPendingChanges(docStore, changes, clock + 1)
    /\ clock' = clock + 1
    /\ batches' = batches + 1
    /\ ReturnWithoutWrite
    /\ UNCHANGED <<nextDocId, edits, convexVars, entityVars, applied, appVars>>

SampleBatches == CreateBatches \cup UNION {BatchesFor(d) : d \in KnownDocIds}

SetPendingChanges == \E changes \in SampleBatches : SetPendingChangesWith(changes)

ApplyChangeOf(changeId) ==
    \E P \in {applyChange(<<docStore, nextDocId>>, changeId)} :
        /\ P[2] <= MaxDocs
        /\ docStore' = P[1]
        /\ nextDocId' = P[2]
        /\ PersistAndReturn(WritesOfChange(<<docStore, nextDocId>>, P, changeId))
        /\ UNCHANGED <<clock, batches, edits, convexVars, entityVars, applied, appVars>>

\* the id of a queued change, or an id the queue does not hold
ApplyChange == \E changeId \in ChangeIds(docStore) \cup {NoChange} : ApplyChangeOf(changeId)

DismissChangeOf(changeId) ==
    /\ docStore' = dismissChange(docStore, changeId)
    /\ ReturnWithoutWrite
    /\ UNCHANGED <<nextDocId, clock, batches, edits, convexVars, entityVars, applied, appVars>>

DismissChange == \E changeId \in ChangeIds(docStore) \cup {NoChange} : DismissChangeOf(changeId)

ApplyAllChanges ==
    \E P \in {applyAllChanges(<<docStore, nextDocId>>)} :
        /\ P[2] <= MaxDocs
        /\ docStore' = P[1]
        /\ nextDocId' = P[2]
        /\ PersistAndReturn(WritesEach(<<docStore, nextDocId>>, PendingIds(docStore)))
        /\ UNCHANGED <<clock, batches, edits, convexVars, entityVars, applied, appVars>>

DismissAllChanges ==
    /\ docStore' = dismissAllChanges(docStore)
    /\ ReturnWithoutWrite
    /\ UNCHANGED <<nextDocId, clock, batches, edits, convexVars, entityVars, applied, appVars>>

\* a direct edit from the editor
UpdateDocument ==
    /\ edits < MaxEdits
    /\ \E documentId \in 1..nextDocId, content \in {headingT, withFrontmatter} :
         \E T \in {updateDocument(docStore, documentId, content)} :
            /\ docStore' = T
            /\ PersistAndReturn(<<UpdateWrite(T, documentId)>>)
    /\ edits' = edits + 1
    /\ UNCHANGED <<nextDocId, clock, batches, convexVars, entityVars, applied, appVars>>

DeleteDocument ==
    \E documentId \in KnownDocIds :
        /\ docStore' = deleteDocument(docStore, documentId)
        /\ PersistAndReturn(<<DeleteWrite(documentId)>>)
        /\ UNCHANGED <<nextDocId, clock, batches, edits, convexVars, entityVars, applied, appVars>>

\* handleRenameDocument: the prompt returns nextTitle
HandleRenameDocument ==
    /\ edits < MaxEdits
    /\ \E docId \in KeysOf(docStore), nextTitle \in {titleT, titleUntitled} :
         LET doc == docStore.documents[docId]
             slug == Slugify(nextTitle)
             directory == Substring(doc.path, 0, LastIndexOf(doc.path, <<"/">>) + 1)
             nextPath == directory \o (IF slug # <<>> THEN slug ELSE ToLower(titleUntitled)) \o DotMd
         IN  /\ doc.path # NullStr
             /\ Trim(nextTitle) # doc.title
             /\ docStore' = updateDocumentMetadata(docStore, docId,
                                [title |-> Trim(nextTitle), path |-> nextPath])
             /\ PersistAndReturn(<<MetadataWrite(docId,
                                       [title |-> Trim(nextTitle), path |-> nextPath])>>)
    /\ edits' = edits + 1
    /\ UNCHANGED <<nextDocId, clock, batches, convexVars, entityVars, applied, appVars>>

\* handleMoveDocument: the prompt returns nextPath
HandleMoveDocument ==
    /\ edits < MaxEdits
    /\ \E docId \in KeysOf(docStore),
          nextPath \in {DocsRoot \o Slugify(titleT) \o DotMd} :
         LET doc == docStore.documents[docId]
         IN  /\ Trim(nextPath) # doc.path
             /\ docStore' = updateDocumentMetadata(docStore, docId,
                                [title |-> NullStr, path |-> Trim(nextPath)])
             /\ PersistAndReturn(<<MetadataWrite(docId,
                                       [title |-> NullStr, path |-> Trim(nextPath)])>>)
    /\ edits' = edits + 1
    /\ UNCHANGED <<nextDocId, clock, batches, convexVars, entityVars, applied, appVars>>

DocNext ==
    \/ HandleNewDocument
    \/ SetPendingChanges
    \/ ApplyChange
    \/ DismissChange
    \/ ApplyAllChanges
    \/ DismissAllChanges
    \/ UpdateDocument
    \/ DeleteDocument
    \/ HandleRenameDocument
    \/ HandleMoveDocument

\* ------------------------------------------------------------------------
\* Persisted change log (convex/messages.ts).  A Convex mutation runs as one
\* serializable transaction, so each mutation is one step.  A row's _id is
\* its position in the table.
\* ------------------------------------------------------------------------
Sessions == {1, 2}

ConvexInit ==
    convexDb = [messages |-> <<>>, changes |-> <<>>, changeResolutions |-> <<>>]

\* changeResolutions.withIndex("by_change", eq(changeId)).first(): the
\* position of the oldest resolution of the change, or 0
FirstResolution(db, changeId) ==
    LET I == {i \in 1..Len(db.changeResolutions) : db.changeResolutions[i].changeId = changeId}
    IN  IF I = {} THEN 0 ELSE Min(I)

\* resolution?.status ?? "pending"
StatusOf(db, changeId) ==
    LET r == FirstResolution(db, changeId)
    IN  IF r = 0 THEN "pending" ELSE db.changeResolutions[r].status

\* getBySession: the messages of the session in creation order, each with
\* the ids and statuses of its changes
getBySession(db, sessionId) ==
    LET mids == SelectSeq([i \in 1..Len(db.messages) |-> i],
                          LAMBDA m : db.messages[m].sessionId = sessionId)
        changesOf(m) == SelectSeq([i \in 1..Len(db.changes) |-> i],
                                  LAMBDA c : db.changes[c].messageId = m)
    IN  [k \in 1..Len(mids) |->
            [message |-> mids[k],
             changes |-> [j \in 1..Len(changesOf(mids[k])) |->
                            [change |-> changesOf(mids[k])[j],
                             status |-> StatusOf(db, changesOf(mids[k])[j])]]]]

\* getPendingChanges: the changes of the session that have no resolution
getPendingChanges(db, sessionId) ==
    SelectSeq([i \in 1..Len(db.changes) |-> i],
              LAMBDA c : db.changes[c].sessionId = sessionId /\ FirstResolution(db, c) = 0)

sendUserMessage(db, sessionId, content) ==
    [db EXCEPT !.messages = Append(@, [sessionId |-> sessionId, role |-> "user",
                                       content |-> content])]

sendAssistantMessage(db, sessionId, content, changes) ==
    LET messageId == Len(db.messages) + 1
    IN  [db EXCEPT !.messages = Append(@, [sessionId |-> sessionId, role |-> "assistant",
                                           content |-> content]),
                   !.changes = @ \o [i \in 1..Len(changes) |->
                                       [messageId |-> messageId,
                                        sessionId |-> sessionId,
                                        documentId |-> changes[i].documentId,
                                        operation |-> changes[i].operation,
                                        target |-> changes[i].target,
                                        content |-> changes[i].content,
                                        description |-> changes[i].description]]]

\* resolveChange recording the status on the change record itself
resolveChangeInPlace(db, changeId, status) ==
    [db EXCEPT !.changes[changeId].operation = status]

\* resolveChange without the check for an existing resolution
resolveChangeAlways(db, changeId, status) ==
    [db EXCEPT !.changeResolutions = Append(@, [changeId |-> changeId, status |-> status])]

resolveChange(db, changeId, status) ==
    IF FirstResolution(db, changeId) # 0 THEN db
    ELSE [db EXCEPT !.changeResolutions = Append(@, [changeId |-> changeId, status |-> status])]

RECURSIVE ResolveEach(_, _, _)
ResolveEach(db, changeIds, status) ==
    IF changeIds = <<>> THEN db
    ELSE ResolveEach(resolveChange(db, Head(changeIds), status), Tail(changeIds), status)

resolveAllChangesForMessage(db, messageId, status) ==
    ResolveEach(db,
                SelectSeq([i \in 1..Len(db.changes) |-> i],
                          LAMBDA c : db.changes[c].messageId = messageId),
                status)

\* a proposed change as the assistant message carries it
Described(change, description) ==
    [documentId |-> change.documentId, operation |-> change.operation,
     target |-> change.target, content |-> change.content,
     description |-> description]

\* change lists an assistant message may carry
MessageChanges ==
    {<<>>,
     <<Described(Change(1, "insert", tEnd, contentA), contentA)>>,
     <<Described(Change(1, "insert", tEnd, contentA), contentA),
       Described(Change(NewDoc, "create", titleT, headingT), contentB)>>}

SendUserMessage ==
    /\ Len(convexDb.messages) < MaxMessages
    /\ \E sessionId \in Sessions :
         convexDb' = sendUserMessage(convexDb, sessionId, contentA)
    /\ Invoke(MaxConvexOps)
    /\ UNCHANGED <<docVars, entityVars, applied, appVars>>

SendAssistantMessage ==
    /\ Len(convexDb.messages) < MaxMessages
    /\ \E sessionId \in Sessions, changes \in MessageChanges :
         /\ Len(convexDb.changes) + Len(changes) <= MaxChanges
         /\ convexDb' = sendAssistantMessage(convexDb, sessionId, contentB, changes)
    /\ Invoke(MaxConvexOps)
    /\ UNCHANGED <<docVars, entityVars, applied, appVars>>

ResolveChangeWith(changeId, status) ==
    /\ convexDb' = resolveChange(convexDb, changeId, status)
    /\ Invoke(MaxConvexOps)
    /\ UNCHANGED <<docVars, entityVars, applied, appVars>>

ResolveChange ==
    \E changeId \in 1..Len(convexDb.changes), status \in {"applied", "dismissed"} :
        ResolveChangeWith(changeId, status)

ResolveAllWith(messageId, status) ==
    /\ convexDb' = resolveAllChangesForMessage(convexDb, messageId, status)
    /\ Invoke(MaxConvexOps)
    /\ UNCHANGED <<docVars, entityVars, applied, appVars>>

ResolveAllChangesForMessage ==
    \E messageId \in 1..Len(convexDb.messages), status \in {"applied", "dismissed"} :
        ResolveAllWith(messageId, status)

ConvexNext ==
    \/ SendUserMessage
    \/ SendAssistantMessage
    \/ ResolveChange
    \/ ResolveAllChangesForMessage


\* ------------------------------------------------------------------------
\* Entity Graph Store (stores/entityStore.ts) over its persistence layer
\* (lib/entities.ts).  A store operation first awaits the database and then
\* updates the local state; the call waits in `calls` in between, so other
\* operations can run between the two.  A database statement that throws
\* rejects the call before the local update.
\* ------------------------------------------------------------------------
NoEntity == -1

GhostEntity == MaxEntities + 1

EntityInit ==
    /\ entityStore = [entities |-> [k \in {} |-> <<>>],
                      relationships |-> <<>>,
                      currentEntityId |-> NoEntity]
    /\ entityDb = [entities |-> [k \in {} |-> <<>>], relationships |-> <<>>]
    /\ calls = {}
    /\ nextEntityId = 0
    /\ nextRelId = 0

References(r, id) == r.subject_id = id \/ r.object_id = id

\* lib/entities.ts createEntity: INSERT INTO entities
dbCreateEntity(db, entity) ==
    [db EXCEPT !.entities = [k \in (DOMAIN db.entities) \cup {entity.id} |->
                                IF k = entity.id THEN entity ELSE db.entities[k]]]

\* lib/entities.ts createRelationship: INSERT INTO relationships
dbCreateRelationship(db, relationship) ==
    [db EXCEPT !.relationships = Append(@, relationship)]

\* lib/entities.ts deleteEntity, first statement:
\* DELETE FROM relationships WHERE subject_id = ? OR object_id = ?
dbDeleteRelationshipsOf(db, id) ==
    [db EXCEPT !.relationships = SelectSeq(@, LAMBDA r : ~References(r, id))]

\* lib/entities.ts deleteEntity, second statement: DELETE FROM entities
dbDeleteEntityRow(db, id) ==
    [db EXCEPT !.entities = [k \in (DOMAIN db.entities) \ {id} |-> db.entities[k]]]

\* lib/entities.ts deleteRelationship: DELETE FROM relationships WHERE id = ?
dbDeleteRelationship(db, id) ==
    [db EXCEPT !.relationships = SelectSeq(@, LAMBDA r : r.id # id)]

\* the result of a SELECT that finds no row
NoRow == [id |-> NoEntity]

\* getEntity that answers a blank entity for an id it does not find
dbGetEntityOrBlank(db, id) ==
    IF id \in DOMAIN db.entities THEN db.entities[id]
    ELSE [id |-> id, type |-> "person", name |-> <<>>, properties |-> EmptyMap]

\* lib/entities.ts getEntity: SELECT * FROM entities WHERE id = ?
dbGetEntity(db, id) ==
    IF id \in DOMAIN db.entities THEN db.entities[id] ELSE NoRow

\* lib/entities.ts updateEntity, the UPDATE statement: name and properties
\* come from the updates or else from the entity read before (x ?? y)
dbUpdateEntity(db, id, updates, entity) ==
    IF id \notin DOMAIN db.entities THEN db
    ELSE [db EXCEPT !.entities[id] =
             [@ EXCEPT !.name = IF "name" \in DOMAIN updates
                                THEN updates.name ELSE entity.name,
                       !.properties = IF "properties" \in DOMAIN updates
                                      THEN updates.properties ELSE entity.properties]]

\* { ...base, ...updates }
Spread(base, updates) ==
    [k \in (DOMAIN base) \cup (DOMAIN updates) |->
        IF k \in DOMAIN updates THEN updates[k] ELSE base[k]]

\* updateEntity that merges the given properties into the stored ones
storeUpdateEntityMergesProperties(S, entityId, updates) ==
    [S EXCEPT !.entities[entityId] =
        [@ EXCEPT !.name = IF "name" \in DOMAIN updates THEN updates.name ELSE @,
                  !.properties = IF "properties" \in DOMAIN updates
                                 THEN Spread(@, updates.properties) ELSE @]]

\* entityStore.ts updateEntity, the set() after the await: the spread of an
\* entity the map does not hold is empty
storeUpdateEntity(S, entityId, updates) ==
    [S EXCEPT !.entities = [k \in (DOMAIN S.entities) \cup {entityId} |->
        IF k = entityId
        THEN Spread(IF entityId \in DOMAIN S.entities
                    THEN S.entities[entityId] ELSE EmptyMap, updates)
        ELSE S.entities[k]]]

\* entityStore.ts createEntity, the set() after the await
storeCreateEntity(S, entity) ==
    [S EXCEPT !.entities = [k \in (DOMAIN S.entities) \cup {entity.id} |->
                               IF k = entity.id THEN entity ELSE S.entities[k]]]

\* entityStore.ts createRelationship, the set() after the await
storeCreateRelationship(S, relationship) ==
    [S EXCEPT !.relationships = Append(@, relationship)]

\* deleteEntity that drops only the relationships the entity is subject of
storeDeleteEntitySubjectOnly(S, entityId) ==
    [S EXCEPT !.entities = [k \in (DOMAIN S.entities) \ {entityId} |-> S.entities[k]],
              !.relationships = SelectSeq(@, LAMBDA r : r.subject_id # entityId),
              !.currentEntityId = IF @ = entityId THEN NoEntity ELSE @]

\* entityStore.ts deleteEntity, the set() after the await
storeDeleteEntity(S, entityId) ==
    [S EXCEPT !.entities = [k \in (DOMAIN S.entities) \ {entityId} |-> S.entities[k]],
              !.relationships = SelectSeq(@, LAMBDA r : r.subject_id # entityId
                                                        /\ r.object_id # entityId),
              !.currentEntityId = IF @ = entityId THEN NoEntity ELSE @]

\* entityStore.ts deleteRelationship, the set() after the await
storeDeleteRelationship(S, relationshipId) ==
    [S EXCEPT !.relationships = SelectSeq(@, LAMBDA r : r.id # relationshipId)]

\* ids a caller can pass: every entity id generated so far, and one that
\* never was an entity id (a temporary id named by the assistant)
KnownEntityIds == (1..nextEntityId) \cup {GhostEntity}

EntityTypes == {"person"}

\* the properties an entity is created with, and the partial updates a
\* caller passes to updateEntity
InitialProperties == [k \in {"role"} |-> "cto"]

EntityUpdates == {[properties |-> [k \in {"team"} |-> "core"]], [name |-> contentB]}

\* ids whose createEntity call has not returned: no caller holds them yet
CreatingIds == {c.arg.id : c \in {d \in calls : d.kind = "createEntity"}}

Call(kind, arg) == [kind |-> kind, arg |-> arg]

\* createEntity: the INSERT succeeds and the call awaits the reply (an
\* INSERT that throws rejects the call and changes nothing)
CreateEntityCall ==
    /\ nextEntityId < MaxEntities
    /\ Cardinality(calls) < MaxCalls
    /\ \E type \in EntityTypes :
         LET entity == [id |-> nextEntityId + 1, type |-> type,
                        name |-> contentA, properties |-> InitialProperties]
         IN  /\ entityDb' = dbCreateEntity(entityDb, entity)
             /\ calls' = calls \cup {Call("createEntity", entity)}
    /\ nextEntityId' = nextEntityId + 1
    /\ Invoke(MaxEntityOps)
    /\ UNCHANGED <<entityStore, nextRelId, docVars, convexVars, applied, appVars>>

CreateEntityReturn ==
    \E c \in calls :
        /\ c.kind = "createEntity"
        /\ entityStore' = storeCreateEntity(entityStore, c.arg)
        /\ calls' = calls \ {c}
        /\ Continue
        /\ UNCHANGED <<entityDb, nextEntityId, nextRelId, docVars, convexVars, applied, appVars>>

\* createRelationship: the INSERT succeeds and the call awaits the reply (an
\* INSERT that throws rejects the call and changes nothing)
CreateRelationshipCall ==
    /\ nextRelId < MaxRels
    /\ Cardinality(calls) < MaxCalls
    /\ \E subjectId \in 1..nextEntityId, objectId \in KnownEntityIds :
         LET relationship == [id |-> nextRelId + 1, type |-> "reports_to",
                              subject_id |-> subjectId, object_id |-> objectId,
                              properties |-> EmptyMap, evidence_ids |-> <<>>]
         IN  /\ entityDb' = dbCreateRelationship(entityDb, relationship)
             /\ calls' = calls \cup {Call("createRelationship", relationship)}
    /\ nextRelId' = nextRelId + 1
    /\ Invoke(MaxEntityOps)
    /\ UNCHANGED <<entityStore, nextEntityId, docVars, convexVars, applied, appVars>>

CreateRelationshipReturn ==
    \E c \in calls :
        /\ c.kind = "createRelationship"
        /\ entityStore' = storeCreateRelationship(entityStore, c.arg)
        /\ calls' = calls \ {c}
        /\ Continue
        /\ UNCHANGED <<entityDb, nextEntityId, nextRelId, docVars, convexVars, applied, appVars>>

\* deleteEntity: the first DELETE (relationships) has run
DeleteEntityCallOf(entityId) ==
    /\ Cardinality(calls) < MaxCalls
    /\ Call("deleteEntityRow", [id |-> entityId]) \notin calls
    /\ Call("deleteEntity", [id |-> entityId]) \notin calls
    /\ entityDb' = dbDeleteRelationshipsOf(entityDb, entityId)
    /\ calls' = calls \cup {Call("deleteEntityRow", [id |-> entityId])}
    /\ Invoke(MaxEntityOps)
    /\ UNCHANGED <<entityStore, nextEntityId, nextRelId, docVars, convexVars, applied, appVars>>

DeleteEntityCall == \E entityId \in 1..nextEntityId : DeleteEntityCallOf(entityId)

\* deleteEntity: the second DELETE (the entity row) runs
DeleteEntityRowOf(entityId) ==
    /\ Call("deleteEntityRow", [id |-> entityId]) \in calls
    /\ entityDb' = dbDeleteEntityRow(entityDb, entityId)
    /\ calls' = (calls \ {Call("deleteEntityRow", [id |-> entityId])}) \cup {Call("deleteEntity", [id |-> entityId])}
    /\ Continue
    /\ UNCHANGED <<entityStore, nextEntityId, nextRelId, docVars, convexVars, applied, appVars>>

DeleteEntityRow == \E entityId \in 1..nextEntityId : DeleteEntityRowOf(entityId)

\* deleteEntity: the second DELETE throws, the local state is not touched
DeleteEntityRowFail ==
    \E entityId \in 1..nextEntityId :
        /\ Call("deleteEntityRow", [id |-> entityId]) \in calls
        /\ calls' = calls \ {Call("deleteEntityRow", [id |-> entityId])}
        /\ ops' = ops
        /\ raised' = "database error"
        /\ UNCHANGED <<entityStore, entityDb, nextEntityId, nextRelId, docVars, convexVars, applied, appVars>>

DeleteEntityReturnOf(entityId) ==
    /\ Call("deleteEntity", [id |-> entityId]) \in calls
    /\ entityStore' = storeDeleteEntity(entityStore, entityId)
    /\ calls' = calls \ {Call("deleteEntity", [id |-> entityId])}
    /\ Continue
    /\ UNCHANGED <<entityDb, nextEntityId, nextRelId, docVars, convexVars, applied, appVars>>

DeleteEntityReturn == \E entityId \in 1..nextEntityId : DeleteEntityReturnOf(entityId)

DeleteRelationshipCall ==
    /\ Cardinality(calls) < MaxCalls
    /\ \E relationshipId \in 1..nextRelId :
         /\ Call("deleteRelationship", [id |-> relationshipId]) \notin calls
         /\ entityDb' = dbDeleteRelationship(entityDb, relationshipId)
         /\ calls' = calls \cup {Call("deleteRelationship", [id |-> relationshipId])}
    /\ Invoke(MaxEntityOps)
    /\ UNCHANGED <<entityStore, nextEntityId, nextRelId, docVars, convexVars, applied, appVars>>

DeleteRelationshipReturn ==
    \E c \in calls :
        /\ c.kind = "deleteRelationship"
        /\ entityStore' = storeDeleteRelationship(entityStore, c.arg.id)
        /\ calls' = calls \ {c}
        /\ Continue
        /\ UNCHANGED <<entityDb, nextEntityId, nextRelId, docVars, convexVars, applied, appVars>>

\* updateEntity: getEntity has answered; a missing row rejects the call
UpdateEntityCallWith(entityId, updates, entity) ==
    IF entity = NoRow
    THEN /\ InvokeRaising(MaxEntityOps, "Entity not found")
         /\ UNCHANGED <<entityVars, docVars, convexVars, applied, appVars>>
    ELSE /\ Invoke(MaxEntityOps)
         /\ Call("updateEntityWrite",
                 [id |-> entityId, updates |-> updates, entity |-> entity]) \notin calls
         /\ calls' = calls \cup {Call("updateEntityWrite",
                        [id |-> entityId, updates |-> updates, entity |-> entity])}
         /\ UNCHANGED <<entityStore, entityDb, nextEntityId, nextRelId, docVars, convexVars, applied, appVars>>

UpdateEntityCall ==
    /\ Cardinality(calls) < MaxCalls
    /\ \E entityId \in KnownEntityIds \ CreatingIds, updates \in EntityUpdates :
         UpdateEntityCallWith(entityId, updates, dbGetEntity(entityDb, entityId))

\* updateEntity: the UPDATE statement runs
UpdateEntityWrite ==
    \E c \in calls :
        /\ c.kind = "updateEntityWrite"
        /\ entityDb' = dbUpdateEntity(entityDb, c.arg.id, c.arg.updates, c.arg.entity)
        /\ calls' = (calls \ {c}) \cup
                        {Call("updateEntity", [id |-> c.arg.id, updates |-> c.arg.updates])}
        /\ Continue
        /\ UNCHANGED <<entityStore, nextEntityId, nextRelId, docVars, convexVars, applied, appVars>>

UpdateEntityReturn ==
    \E c \in calls :
        /\ c.kind = "updateEntity"
        /\ entityStore' = storeUpdateEntity(entityStore, c.arg.id, c.arg.updates)
        /\ calls' = calls \ {c}
        /\ Continue
        /\ UNCHANGED <<entityDb, nextEntityId, nextRelId, docVars, convexVars, applied, appVars>>

EntityNext ==
    \/ UpdateEntityCall
    \/ UpdateEntityWrite
    \/ UpdateEntityReturn
    \/ CreateEntityCall
    \/ CreateEntityReturn
    \/ CreateRelationshipCall
    \/ CreateRelationshipReturn
    \/ DeleteEntityCall
    \/ DeleteEntityRow
    \/ DeleteEntityRowFail
    \/ DeleteEntityReturn
    \/ DeleteRelationshipCall
    \/ DeleteRelationshipReturn

\* ------------------------------------------------------------------------
\* The content functions, applied to contents drawn from bounded sets
\* ------------------------------------------------------------------------
\* each behaviour applies one function to one input
NoApplication == [fn |-> "none"]

\* sequences over S of length lo..hi
SeqsOf(S, lo, hi) == UNION {[1..n -> S] : n \in lo..hi}

RECURSIVE Concat(_)
\* the concatenation of a sequence of strings
Concat(ss) == IF ss = <<>> THEN <<>> ELSE Head(ss) \o Concat(Tail(ss))

\* "key: value" lines
FrontmatterLines ==
    {<<"k", ":", " ", "v">>, <<"t", "a", "g", ":", " ", "x">>}

\* the lines joined by newlines
RECURSIVE JoinLines(_)
JoinLines(ls) ==
    IF Len(ls) = 1 THEN ls[1] ELSE ls[1] \o <<"\n">> \o JoinLines(Tail(ls))

\* '---', newline, key: value lines, newline, '---', newline
FrontmatterBlocks ==
    {Dashes \o <<"\n">> \o JoinLines(ls) \o <<"\n">> \o Dashes \o <<"\n">> :
        ls \in SeqsOf(FrontmatterLines, 1, MaxFrontmatterLines)}

\* bodies: text or markup, after up to MaxLeading newlines or spaces
Bodies ==
    {lead \o core :
        lead \in SeqsOf({"\n", " "}, 0, MaxLeading),
        core \in {<<>>, <<"b">>, <<"<", "p", ">", "b", "<", "/", "p", ">">>}}

\* what reading a stored content and writing it back goes through:
\* parseFrontmatter, then serializeDocumentContent of the parsed raw block and
\* body (createDocument / updateDocument compute exactly this for the row)
RoundTripOf(content, parsed) ==
    [fn |-> "roundTrip", content |-> content, parsed |-> parsed,
     serialized |-> serializeDocumentContent(parsed.frontmatterRaw, parsed.body)]

RoundTrip ==
    /\ applied = NoApplication
    /\ \E block \in FrontmatterBlocks, body \in Bodies :
          \E parsed \in {parseFrontmatter(block \o body)} :
             applied' = RoundTripOf(block \o body, parsed)
    /\ Continue
    /\ UNCHANGED <<docVars, convexVars, entityVars, appVars>>

\* an outline is a prefix followed by sections: a heading of level 2 or 3
\* and a paragraph
HeadingTitles == {<<"E", "n", "d">>, <<"O", "t", "h", "e", "r">>}

Sections == [level : {2, 3}, title : HeadingTitles]

Outlines ==
    [prefix : {<<>>, <<"<", "p", ">", "i", "<", "/", "p", ">">>}, headings : SeqsOf(Sections, 0, MaxHeadings)]

RenderHeading(h) ==
    <<"<", "h">> \o NatToStr(h.level) \o <<">">> \o h.title
        \o <<"<", "/", "h">> \o NatToStr(h.level) \o <<">">>

\* the HTML of an outline
Render(o) ==
    o.prefix \o Concat([i \in 1..Len(o.headings) |->
                            RenderHeading(o.headings[i]) \o <<"<", "p", ">", "x", "<", "/", "p", ">">>])

\* targets of insert changes
InsertTargets ==
    {<<"a", "f", "t", "e", "r", " ", "E", "n", "d">>,
     <<"a", "f", "t", "e", "r", " ", "O", "t", "h", "e", "r">>,
     <<"A", "F", "T", "E", "R", " ", "e", "n", "d">>,
     <<"a", "f", "t", "e", "r", " ", "Z">>,
     <<"a", "f", "t", "e", "r", " ", "Z", " ", "e", "n", "d">>,
     <<"b", "e", "f", "o", "r", "e", " ", "O", "t", "h", "e", "r">>,
     <<"b", "e", "f", "o", "r", "e", " ", "E", "n", "d">>,
     <<"b", "e", "f", "o", "r", "e", " ", "Z", " ", "s", "t", "a", "r", "t">>,
     <<"b", "e", "f", "o", "r", "e", " ", "Z">>,
     <<"e", "n", "d">>,
     <<"b", "e", "g", "i", "n", "n", "i", "n", "g">>,
     <<"s", "t", "a", "r", "t">>,
     <<"s", "t", "a", "r", "t", " ", "e", "n", "d">>,
     <<"B">>,
     <<>>}

\* targets of replace and delete changes
ReplaceTargets ==
    {<<"r", "e", "p", "l", "a", "c", "e", " ", "E", "n", "d">>,
     <<"r", "e", "p", "l", "a", "c", "e", " ", "t", "h", "e", " ", "O", "t", "h", "e", "r">>,
     <<"r", "e", "p", "l", "a", "c", "e", " ", "O", "t", "h", "e", "r">>,
     <<"d", "e", "l", "e", "t", "e", " ", "E", "n", "d">>,
     <<"R", "E", "P", "L", "A", "C", "E", " ", "e", "n", "d">>,
     <<"r", "e", "p", "l", "a", "c", "e", " ", "Z">>,
     <<"r", "e", "p", "l", "a", "c", "e">>,
     <<"E", "n", "d">>,
     <<>>}

\* applyChangeToContent, case "insert": findInsertionPoint(content, target)
FindInsertionPointOf(o, content, target) ==
    [fn |-> "findInsertionPoint", outline |-> o, content |-> content,
     target |-> target, offset |-> findInsertionPoint(content, target)]

FindInsertionPoint ==
    /\ applied = NoApplication
    /\ \E o \in Outlines, target \in InsertTargets :
          \E content \in {Render(o)} :
             applied' = FindInsertionPointOf(o, content, target)
    /\ Continue
    /\ UNCHANGED <<docVars, convexVars, entityVars, appVars>>

\* applyChangeToContent, cases "replace" and "delete":
\* findAndReplace(content, target, newContent)
FindAndReplaceOf(o, content, target, newContent) ==
    [fn |-> "findAndReplace", outline |-> o, content |-> content,
     target |-> target, newContent |-> newContent,
     result |-> findAndReplace(content, target, newContent)]

FindAndReplace ==
    /\ applied = NoApplication
    /\ \E o \in Outlines, target \in ReplaceTargets, newContent \in {<<>>, <<"N">>} :
          \E content \in {Render(o)} :
             applied' = FindAndReplaceOf(o, content, target, newContent)
    /\ Continue
    /\ UNCHANGED <<docVars, convexVars, entityVars, appVars>>

\* applyChangeToContent, case "insert"
ApplyInsertOf(o, content, target, text) ==
    [fn |-> "applyInsert", outline |-> o, content |-> content, target |-> target,
     text |-> text, offset |-> findInsertionPoint(content, target),
     result |-> applyChangeToContent(content, Change(NewDoc, "insert", target, text))]

\* one target for each rule of findInsertionPoint, and one for the default
SpliceTargets ==
    {kwAfter \o <<" ", "E", "n", "d">>,
     kwBefore \o <<" ", "O", "t", "h", "e", "r">>,
     kwStart,
     kwEnd,
     <<>>}

ApplyInsert ==
    /\ applied = NoApplication
    /\ \E o \in Outlines, target \in SpliceTargets, text \in {<<>>, <<"N">>} :
          \E content \in {Render(o)} :
             applied' = ApplyInsertOf(o, content, target, text)
    /\ Continue
    /\ UNCHANGED <<docVars, convexVars, entityVars, appVars>>

ContentNext ==
    \/ ApplyInsert
    \/ RoundTrip
    \/ FindInsertionPoint
    \/ FindAndReplace

\* ------------------------------------------------------------------------
\* Document writes in flight.  The store's updateDocument changes the local
\* state and then awaits turso.updateDocument, and applyChange does not await
\* updateDocument, so the calls of one batch are all started before any
\* statement of them has run.  turso.updateDocument runs three statements,
\* each awaited: SELECT the row, INSERT its content into document_versions,
\* UPDATE the row.  The client gives no order between the statements of
\* different calls.
\* ------------------------------------------------------------------------
MaxInflight == 2

NoUpdate == [document_id |-> NoDoc, before |-> NullStr, content |-> NullStr]

WriteInit ==
    /\ inflight = <<>>
    /\ versions = <<>>
    /\ lastUpdate = NoUpdate
    /\ writeFailed = FALSE

\* turso.updateDocument(id, content) up to its first await; now is Date.now()
StartUpdate(id, content, now) ==
    [document_id |-> id, content |-> content, now |-> now, pc |-> "select",
     current |-> NullStr]

\* Date.now() of the k-th call started in one synchronous run: the clock
\* has ticked between the calls, or it has not
NowOf(ticks, k) == IF ticks THEN clock + k ELSE clock + 1

StartEach(writes, ticks) ==
    [k \in 1..Len(writes) |-> StartUpdate(writes[k].id, writes[k].content, NowOf(ticks, k))]

WithoutCall(calls_, i) == SubSeq(calls_, 1, i - 1) \o SubSeq(calls_, i + 1, Len(calls_))

\* batches of edits against documents of the store
EditBatches ==
    {<<Change(d, "insert", tEnd, contentA)>> : d \in KeysOf(docStore)}
    \cup {<<Change(d1, "insert", tEnd, contentA), Change(d2, "insert", tEnd, contentB)>> :
            d1, d2 \in KeysOf(docStore)}

ProposeEdits == \E changes \in EditBatches : SetPendingChangesWith(changes)

\* applyAllChanges: every pending change is applied to the local state and
\* its turso.updateDocument call is started
ApplyAllChangesStart ==
    /\ PendingIds(docStore) # <<>>
    /\ \E writes \in {WritesEach(<<docStore, nextDocId>>, PendingIds(docStore))} :
         /\ \A k \in 1..Len(writes) : writes[k].kind = "update"
         /\ Len(inflight) + Len(writes) <= MaxInflight
         /\ \E ticks \in BOOLEAN : inflight' = inflight \o StartEach(writes, ticks)
         /\ clock' = clock + Len(writes)
    /\ \E P \in {applyAllChanges(<<docStore, nextDocId>>)} :
         /\ docStore' = P[1]
         /\ nextDocId' = P[2]
    /\ Invoke(MaxDocOps)
    /\ UNCHANGED <<batches, edits, docDb, tursoUp, logged, versions, lastUpdate, writeFailed,
                   convexVars, entityVars, applied, besidesWrites>>

\* updateDocument called from the editor
UpdateDocumentStart ==
    /\ edits < MaxEdits
    /\ Len(inflight) < MaxInflight
    /\ \E documentId \in KeysOf(docStore), content \in {headingT} :
         \E T \in {updateDocument(docStore, documentId, content)} :
            /\ docStore' = T
            /\ inflight' = Append(inflight, StartUpdate(documentId,
                                      RowContent(T.documents[documentId]), clock + 1))
    /\ clock' = clock + 1
    /\ edits' = edits + 1
    /\ Invoke(MaxDocOps)
    /\ UNCHANGED <<nextDocId, batches, docDb, tursoUp, logged, versions, lastUpdate,
                   writeFailed, convexVars, entityVars, applied, besidesWrites>>

\* const current = await getDocument(id)
TursoSelect ==
    \E i \in 1..Len(inflight) :
        /\ inflight[i].pc = "select"
        /\ inflight' = [inflight EXCEPT
              ![i].current = IF inflight[i].document_id \in DOMAIN docDb
                             THEN docDb[inflight[i].document_id].content ELSE NullStr,
              ![i].pc = IF inflight[i].document_id \in DOMAIN docDb
                        THEN "insert" ELSE "update"]
        /\ Continue
        /\ UNCHANGED <<docVars, versions, lastUpdate, writeFailed,
                       convexVars, entityVars, applied, besidesWrites>>

\* INSERT INTO document_versions with the id `ver-${now}`
TursoInsertVersion ==
    \E i \in 1..Len(inflight) :
        /\ inflight[i].pc = "insert"
        /\ \A v \in 1..Len(versions) : versions[v].id # inflight[i].now
        /\ versions' = Append(versions, [id |-> inflight[i].now,
                                         document_id |-> inflight[i].document_id,
                                         content |-> inflight[i].current])
        /\ inflight' = [inflight EXCEPT ![i].pc = "update"]
        /\ Continue
        /\ UNCHANGED <<docVars, lastUpdate, writeFailed,
                       convexVars, entityVars, applied, besidesWrites>>

\* the INSERT fails on the primary key: turso.updateDocument rejects before
\* its UPDATE, and the store's catch block logs the error
TursoInsertVersionFails ==
    \E i \in 1..Len(inflight) :
        /\ inflight[i].pc = "insert"
        /\ \E v \in 1..Len(versions) : versions[v].id = inflight[i].now
        /\ inflight' = WithoutCall(inflight, i)
        /\ writeFailed' = TRUE
        /\ Continue
        /\ UNCHANGED <<docVars, versions, lastUpdate,
                       convexVars, entityVars, applied, besidesWrites>>

\* UPDATE documents SET content = ? WHERE id = ?
TursoUpdate ==
    \E i \in 1..Len(inflight) :
        /\ inflight[i].pc = "update"
        /\ IF inflight[i].document_id \in DOMAIN docDb
           THEN /\ docDb' = [docDb EXCEPT ![inflight[i].document_id].content =
                                              inflight[i].content]
                /\ lastUpdate' = [document_id |-> inflight[i].document_id,
                                  before |-> docDb[inflight[i].document_id].content,
                                  content |-> inflight[i].content]
           ELSE UNCHANGED <<docDb, lastUpdate>>
        /\ inflight' = WithoutCall(inflight, i)
        /\ Continue
        /\ UNCHANGED <<docStore, nextDocId, clock, batches, edits, tursoUp, logged,
                       versions, writeFailed, convexVars, entityVars, applied, besidesWrites>>

WriteNext ==
    \/ HandleNewDocument
    \/ ProposeEdits
    \/ ApplyAllChangesStart
    \/ UpdateDocumentStart
    \/ TursoSelect
    \/ TursoInsertVersion
    \/ TursoInsertVersionFails
    \/ TursoUpdate

\* ------------------------------------------------------------------------
\* The Apply handlers: handleApply of the chat pane (RightPane.tsx) and of
\* the document banner (CenterPane.tsx).  Both read the changes from their
\* useQuery result, which the Convex client replaces after a mutation has
\* run; both apply locally first and then await their resolve mutations.
\* The panes use session 1.
\* ------------------------------------------------------------------------
PaneSession == CHOOSE sessionId \in Sessions : TRUE

ApplyInit ==
    /\ view = [messages |-> <<>>, changes |-> <<>>, changeResolutions |-> <<>>]
    /\ resolving = <<>>
    /\ executions = [c \in {} |-> 0]

\* the Convex client delivers the current query results
ViewRefresh ==
    /\ view # convexDb
    /\ view' = convexDb
    /\ Continue
    /\ UNCHANGED <<resolving, executions, docVars, convexVars, entityVars, applied,
                   besidesApply>>

\* message.changes.filter((c) => c.status === "pending"), as ids
PendingOfMessage(db, messageId) ==
    SelectSeq([i \in 1..Len(db.changes) |-> i],
              LAMBDA c : db.changes[c].messageId = messageId /\ StatusOf(db, c) = "pending")

\* pendingForThisDoc
PendingForThisDoc(db, S) ==
    SelectSeq(getPendingChanges(db, PaneSession),
              LAMBDA c : db.changes[c].documentId = S.currentDocumentId)

\* the changes the handler passes to setPendingChanges
LocalBatch(db, ids) ==
    [k \in 1..Len(ids) |-> Described(db.changes[ids[k]], db.changes[ids[k]].description)]

\* per queued change in turn: 1 when applyChange executes its store
\* mutation (createDocument, deleteDocument or updateDocument), else 0
RECURSIVE MutationsEach(_, _)
RECURSIVE MutationsEachVia(_, _, _)
MutationsEachVia(P, Q, ids) ==
    <<Len(WritesOfChange(P, Q, Head(ids)))>> \o MutationsEach(Q, Tail(ids))

MutationsEach(P, ids) ==
    IF ids = <<>> THEN <<>>
    ELSE MutationsEachVia(P, applyChange(P, Head(ids)), ids)

CountOf(counts, c) == IF c \in DOMAIN counts THEN counts[c] ELSE 0

\* counts with the mutations of the batch added to its changes
Counted(counts, ids, mutations) ==
    [c \in (DOMAIN counts) \cup {ids[k] : k \in 1..Len(ids)} |->
        CountOf(counts, c)
        + Cardinality({k \in 1..Len(ids) : ids[k] = c /\ mutations[k] = 1})]

\* setPendingChanges(...); applyAllChanges()
ApplyLocally(ids) ==
    \E S \in {setPendingChanges(docStore, LocalBatch(view, ids), clock + 1)} :
        \E P \in {applyAllChanges(<<S, nextDocId>>)} :
            /\ P[2] <= MaxDocs
            /\ docStore' = P[1]
            /\ nextDocId' = P[2]
            /\ clock' = clock + 1
            /\ executions' = Counted(executions, ids,
                                     MutationsEach(<<S, nextDocId>>, PendingIds(S)))
            /\ PersistAndReturn(WritesEach(<<S, nextDocId>>, PendingIds(S)))

Resolve(kind, messageId, changeIds) ==
    [kind |-> kind, messageId |-> messageId, changeIds |-> changeIds]

\* the chat pane's handleApply(message) up to its await
ChatHandleApply ==
    \E messageId \in 1..Len(view.messages) :
        /\ view.messages[messageId].sessionId = PaneSession
        /\ \E c \in 1..Len(view.changes) : view.changes[c].messageId = messageId
        /\ \E ids \in {PendingOfMessage(view, messageId)} :
              IF ids # <<>>
              THEN ApplyLocally(ids)
              ELSE /\ Invoke(MaxDocOps)
                   /\ UNCHANGED <<docStore, nextDocId, clock, executions, docDb, logged,
                                  tursoUp>>
        /\ resolving' = Append(resolving, Resolve("message", messageId, <<>>))
        /\ UNCHANGED <<view, batches, edits, convexVars, entityVars, applied, besidesApply>>

\* the banner's handleApply up to its first await
BannerHandleApply ==
    \E ids \in {PendingForThisDoc(view, docStore)} :
        /\ ids # <<>>
        /\ ApplyLocally(ids)
        /\ resolving' = Append(resolving, Resolve("changes", 0, ids))
        /\ UNCHANGED <<view, batches, edits, convexVars, entityVars, applied, besidesApply>>

\* a handler's next resolve mutation runs: resolveAllChangesForMessage for
\* the chat pane, the next resolveChange for the banner
ResolveRuns ==
    \E i \in 1..Len(resolving) :
        /\ IF resolving[i].kind = "message"
           THEN /\ convexDb' = resolveAllChangesForMessage(convexDb, resolving[i].messageId,
                                                          "applied")
                /\ resolving' = WithoutCall(resolving, i)
           ELSE /\ convexDb' = resolveChange(convexDb, Head(resolving[i].changeIds), "applied")
                /\ resolving' = IF Len(resolving[i].changeIds) = 1
                                THEN WithoutCall(resolving, i)
                                ELSE [resolving EXCEPT ![i].changeIds = Tail(@)]
        /\ Continue
        /\ UNCHANGED <<view, executions, docVars, entityVars, applied, besidesApply>>

ApplyNext ==
    \/ HandleNewDocument
    \/ SendAssistantMessage
    \/ ViewRefresh
    \/ ChatHandleApply
    \/ BannerHandleApply
    \/ ResolveRuns

\* ------------------------------------------------------------------------
\* Desktop meetings data (the renderer's meetings store).  updateMeetingsData
\* clones the in-memory data, applies the update to the clone, awaits the
\* save in the main process, and commits the clone when the save succeeded.
\* ------------------------------------------------------------------------
MaxMeetingUpdates == 3

MaxSaving == 2

MeetingIds == {1, 2}

DEFAULT_MEETINGS_DATA == [upcomingMeetings |-> <<>>, pastMeetings |-> <<>>]

NoResult == [success |-> TRUE, call |-> 0]

\* a recorded meeting and a calendar entry, on the same day
Meeting(id) ==
    [id |-> id, title |-> contentA, type |-> IF id = 1 THEN "document" ELSE "calendar",
     date |-> "day"]

\* rebuildPastMeetingsByDate
rebuildPastMeetingsByDate(data) ==
    LET listed == SelectSeq(data.pastMeetings, LAMBDA meeting : meeting.type # "calendar")
    IN  [dateKey \in {listed[i].date : i \in 1..Len(listed)} |->
            SelectSeq(listed, LAMBDA meeting : meeting.date = dateKey)]

MeetingsInit ==
    /\ meetingsData = DEFAULT_MEETINGS_DATA
    /\ pastMeetingsByDate = rebuildPastMeetingsByDate(DEFAULT_MEETINGS_DATA)
    /\ savedData = DEFAULT_MEETINGS_DATA
    /\ saving = <<>>
    /\ serial = DEFAULT_MEETINGS_DATA
    /\ saveResult = NoResult

\* the update functions of addPastMeeting, removeMeetingById and
\* updateMeetingById (with an updater that sets the title)
MeetingUpdate(kind, id) == [kind |-> kind, id |-> id]

MeetingUpdates == {MeetingUpdate(kind, id) : kind \in {"add", "remove", "retitle"},
                                            id \in MeetingIds}

Retitled(meetings, id) ==
    LET I == {i \in 1..Len(meetings) : meetings[i].id = id}
    IN  IF I = {} THEN meetings ELSE [meetings EXCEPT ![Min(I)].title = contentB]

\* updateFn(draft); findMeetingById looks in upcomingMeetings first
updateFn(update, draft) ==
    CASE update.kind = "add" ->
            [draft EXCEPT !.pastMeetings = <<Meeting(update.id)>> \o @]
      [] update.kind = "remove" ->
            [draft EXCEPT
                !.pastMeetings = SelectSeq(@, LAMBDA meeting : meeting.id # update.id),
                !.upcomingMeetings = SelectSeq(@, LAMBDA meeting : meeting.id # update.id)]
      [] OTHER ->
            IF \E i \in 1..Len(draft.upcomingMeetings) : draft.upcomingMeetings[i].id = update.id
            THEN [draft EXCEPT !.upcomingMeetings = Retitled(@, update.id)]
            ELSE [draft EXCEPT !.pastMeetings = Retitled(@, update.id)]

\* if (result.success) setMeetingsData(draft)
Commit(call, current) == call.draft

\* updateMeetingsData up to its await: the draft is on its way to the main
\* process
UpdateMeetingsDataCall ==
    /\ ops < MaxMeetingUpdates
    /\ Len(saving) < MaxSaving
    /\ \E update \in MeetingUpdates :
         saving' = Append(saving, [call |-> ops + 1, update |-> update,
                                   draft |-> updateFn(update, meetingsData)])
    /\ ops' = ops + 1
    /\ raised' = NoError
    /\ UNCHANGED <<meetingsData, pastMeetingsByDate, savedData, serial, saveResult,
                   docVars, convexVars, entityVars, applied, besidesMeetings>>

\* the save of a call succeeds: the draft is committed
SaveSucceeds ==
    \E i \in 1..Len(saving) :
        \E next \in {Commit(saving[i], meetingsData)} :
            /\ savedData' = saving[i].draft
            /\ meetingsData' = next
            /\ pastMeetingsByDate' = rebuildPastMeetingsByDate(next)
            /\ serial' = updateFn(saving[i].update, serial)
            /\ saveResult' = [success |-> TRUE, call |-> saving[i].call]
            /\ saving' = WithoutCall(saving, i)
            /\ Continue
            /\ UNCHANGED <<docVars, convexVars, entityVars, applied, besidesMeetings>>

\* the save fails (the handler reports no success, or the invoke rejects):
\* the call returns the failure and commits nothing
SaveFails ==
    \E i \in 1..Len(saving) :
        /\ saveResult' = [success |-> FALSE, call |-> saving[i].call]
        /\ saving' = WithoutCall(saving, i)
        /\ Continue
        /\ UNCHANGED <<meetingsData, pastMeetingsByDate, savedData, serial,
                       docVars, convexVars, entityVars, applied, besidesMeetings>>

MeetingsNext ==
    \/ UpdateMeetingsDataCall
    \/ SaveSucceeds
    \/ SaveFails

\* ------------------------------------------------------------------------
\* The chat pane (RightPane.tsx handleSubmit) over chatWithAI (lib/ai.ts).
\* handleSubmit runs while isLoading is false, so one submission is in
\* progress at a time.  Every await of the handler ends a step.  Each queued
\* mutation carries the number of the chatWithAI call whose tool call queued
\* it (queuedBy), which the program does not store.
\* ------------------------------------------------------------------------
MaxChatCalls == 2

MaxQueued == 2

MAX_TOOL_ITERATIONS == 10

\* the tempId handleCreateEntity returns: never the id of an entity
TempEntity == -2

NoReply == [message |-> <<>>, changes |-> <<>>]

ChatInit ==
    /\ chat = [pc |-> "idle", call |-> 0, iteration |-> 0, queued |-> 0,
               todo |-> <<>>, response |-> NoReply]
    /\ pendingMutations = <<>>

ErrorReply == <<"S", "o", "r", "r", "y">>

\* the replies the assistant ends a call with
Replies ==
    {[message |-> contentA, changes |-> <<>>],
     [message |-> contentB,
      changes |-> <<Described(Change(1, "insert", tEnd, contentA), contentA)>>]}

\* ids the assistant can name in create_relationship: the entities of the
\* workspace and the tempId of an entity it has asked to create
NameableIds == (DOMAIN entityStore.entities) \cup {TempEntity}

Tool(name, subjectId, objectId) ==
    [name |-> name, subjectId |-> subjectId, objectId |-> objectId]

\* the tool calls one reply of the assistant can carry
ToolCallLists ==
    {<<Tool("list_documents", NoEntity, NoEntity)>>,
     <<Tool("create_entity", NoEntity, NoEntity)>>}
    \cup {<<Tool("create_relationship", s, o)>> : s, o \in NameableIds}
    \cup {<<Tool("create_entity", NoEntity, NoEntity),
            Tool("create_relationship", TempEntity, o)>> : o \in NameableIds}

\* handleCreateEntity and handleCreateRelationship: pendingMutations.push;
\* every other tool only reads the workspace
Queues(tool) == tool.name \in {"create_entity", "create_relationship"}

RECURSIVE executeTools(_, _, _)
executeTools(buffer, toolCalls, call) ==
    IF toolCalls = <<>> THEN buffer
    ELSE executeTools(IF Queues(Head(toolCalls))
                      THEN Append(buffer, [type |-> Head(toolCalls).name,
                                           subjectId |-> Head(toolCalls).subjectId,
                                           objectId |-> Head(toolCalls).objectId,
                                           queuedBy |-> call])
                      ELSE buffer,
                      Tail(toolCalls), call)

\* handleSubmit up to the call of chatWithAI: the user message is sent
HandleSubmit ==
    /\ chat.pc = "idle"
    /\ chat.call < MaxChatCalls
    /\ convexDb' = sendUserMessage(convexDb, 1, contentA)
    /\ chat' = [chat EXCEPT !.pc = "chatting", !.call = @ + 1, !.iteration = 0]
    /\ Continue
    /\ UNCHANGED <<pendingMutations, docVars, entityVars, applied, besidesChat>>

\* the catch and finally blocks of handleSubmit
CatchAndFinally ==
    /\ convexDb' = sendAssistantMessage(convexDb, 1, ErrorReply, <<>>)
    /\ chat' = [chat EXCEPT !.pc = "idle", !.todo = <<>>, !.response = NoReply]

\* one iteration of the tool loop whose reply carries tool calls
ChatToolCalls ==
    /\ chat.pc = "chatting"
    /\ chat.iteration < MAX_TOOL_ITERATIONS
    /\ \E toolCalls \in ToolCallLists :
         \E buffer \in {executeTools(pendingMutations, toolCalls, chat.call)} :
            /\ chat.queued + (Len(buffer) - Len(pendingMutations)) <= MaxQueued
            /\ pendingMutations' = buffer
            /\ chat' = [chat EXCEPT !.iteration = @ + 1,
                                    !.queued = @ + (Len(buffer) - Len(pendingMutations))]
    /\ Continue
    /\ UNCHANGED <<docVars, convexVars, entityVars, applied, besidesChat>>

\* the request fails, or the reply carries no message: chatWithAI throws
ChatApiError ==
    /\ chat.pc = "chatting"
    /\ chat.iteration < MAX_TOOL_ITERATIONS
    /\ CatchAndFinally
    /\ Continue
    /\ UNCHANGED <<pendingMutations, docVars, entityVars, applied, besidesChat>>

\* the loop ends: throw new Error("Max tool iterations reached")
ChatIterationLimit ==
    /\ chat.pc = "chatting"
    /\ chat.iteration = MAX_TOOL_ITERATIONS
    /\ CatchAndFinally
    /\ Continue
    /\ UNCHANGED <<pendingMutations, docVars, entityVars, applied, besidesChat>>

\* the reply carries no tool calls: chatWithAI returns it, and the handler
\* takes the buffer with getPendingEntityMutations
ChatFinalResponse ==
    /\ chat.pc = "chatting"
    /\ chat.iteration < MAX_TOOL_ITERATIONS
    /\ \E response \in Replies :
         chat' = [chat EXCEPT !.pc = "executing", !.todo = pendingMutations,
                              !.response = response]
    /\ pendingMutations' = <<>>
    /\ Continue
    /\ UNCHANGED <<docVars, convexVars, entityVars, applied, besidesChat>>

\* the handler awaits createEntity or createRelationship for the next
\* mutation it took
ExecuteMutation ==
    /\ chat.pc = "executing"
    /\ chat.todo # <<>>
    /\ \E mutation \in {Head(chat.todo)} :
         IF mutation.type = "create_entity"
         THEN \E entity \in {[id |-> nextEntityId + 1, type |-> "person",
                              name |-> contentA, properties |-> InitialProperties]} :
                 /\ entityDb' = dbCreateEntity(entityDb, entity)
                 /\ entityStore' = storeCreateEntity(entityStore, entity)
                 /\ nextEntityId' = nextEntityId + 1
                 /\ UNCHANGED nextRelId
         ELSE \E relationship \in {[id |-> nextRelId + 1, type |-> "reports_to",
                                    subject_id |-> mutation.subjectId,
                                    object_id |-> mutation.objectId,
                                    properties |-> EmptyMap, evidence_ids |-> <<>>]} :
                 /\ entityDb' = dbCreateRelationship(entityDb, relationship)
                 /\ entityStore' = storeCreateRelationship(entityStore, relationship)
                 /\ nextRelId' = nextRelId + 1
                 /\ UNCHANGED nextEntityId
    /\ chat' = [chat EXCEPT !.todo = Tail(@)]
    /\ Continue
    /\ UNCHANGED <<pendingMutations, calls, docVars, convexVars, applied, besidesChat>>

\* the INSERT of the next mutation throws: the handler's catch block runs
\* and the mutations it still held are dropped
ExecuteMutationFails ==
    /\ chat.pc = "executing"
    /\ chat.todo # <<>>
    /\ CatchAndFinally
    /\ Continue
    /\ UNCHANGED <<pendingMutations, docVars, entityVars, applied, besidesChat>>

\* every mutation is executed: the reply is sent and its changes are queued
HandleSubmitReturn ==
    /\ chat.pc = "executing"
    /\ chat.todo = <<>>
    /\ convexDb' = sendAssistantMessage(convexDb, 1, chat.response.message,
                                        chat.response.changes)
    /\ IF chat.response.changes # <<>>
       THEN /\ docStore' = setPendingChanges(docStore, chat.response.changes, clock + 1)
            /\ clock' = clock + 1
       ELSE UNCHANGED <<docStore, clock>>
    /\ chat' = [chat EXCEPT !.pc = "idle", !.response = NoReply]
    /\ Continue
    /\ UNCHANGED <<pendingMutations, nextDocId, batches, edits, docDb, tursoUp, logged,
                   entityVars, applied, besidesChat>>

ChatNext ==
    \/ HandleSubmit
    \/ ChatToolCalls
    \/ ChatApiError
    \/ ChatIterationLimit
    \/ ChatFinalResponse
    \/ ExecuteMutation
    \/ ExecuteMutationFails
    \/ HandleSubmitReturn


\* ------------------------------------------------------------------------
\* The final reply of chatWithAI (lib/ai.ts).  A reply text is a sequence of
\* lexical tokens: the braces, the key "message" with its colon, the string
\* "hi", the literal null, and a word of prose.  JSON.parse is the parser of
\* the JSON grammar over these tokens.
\* ------------------------------------------------------------------------
MaxReplyLen == 5

tLBrace == "{"

tRBrace == "}"

tMessageKey == "\"message\":"

tString == "\"hi\""

tNull == "null"

tProse == "x"

ReplyTokens == {tLBrace, tRBrace, tMessageKey, tString, tNull, tProse}

ReplyTexts == SeqsOf(ReplyTokens, 0, MaxReplyLen)

\* JSON values: null, a string, an object without keys, an object whose key
\* "message" holds the value member
JNull == [kind |-> "null", member |-> <<>>]

JString == [kind |-> "string", member |-> <<>>]

JEmptyObject == [kind |-> "object", member |-> <<>>]

JObject(value) == [kind |-> "object", member |-> <<value>>]

SyntaxError == [ok |-> FALSE, next |-> 0, value |-> JNull]

Parsed(value, next) == [ok |-> TRUE, next |-> next, value |-> value]

\* the JSON value that starts at token i of text, and where it ends
RECURSIVE ParseValue(_, _)
ParseValue(text, i) ==
    IF i > Len(text) THEN SyntaxError
    ELSE IF text[i] = tNull THEN Parsed(JNull, i + 1)
    ELSE IF text[i] = tString THEN Parsed(JString, i + 1)
    ELSE IF text[i] # tLBrace \/ i + 1 > Len(text) THEN SyntaxError
    ELSE IF text[i + 1] = tRBrace THEN Parsed(JEmptyObject, i + 2)
    ELSE IF text[i + 1] # tMessageKey THEN SyntaxError
    ELSE LET inner == ParseValue(text, i + 2)
         IN  IF inner.ok /\ inner.next <= Len(text) /\ text[inner.next] = tRBrace
             THEN Parsed(JObject(inner.value), inner.next + 1)
             ELSE SyntaxError

\* JSON.parse(text): the value, or a SyntaxError when the text is not one
\* JSON value
JSONParse(text) ==
    LET r == ParseValue(text, 1)
    IN  IF r.ok /\ r.next = Len(text) + 1 THEN r ELSE SyntaxError

\* what chatWithAI returns, or the error it throws
Returned(kind, text, value) ==
    [threw |-> FALSE, kind |-> kind, text |-> text, value |-> value, changes |-> "undefined"]

Thrown == [threw |-> TRUE, kind |-> "error", text |-> <<>>, value |-> JNull,
           changes |-> "undefined"]

\* { message: parsed.message || "", changes: parsed.changes || undefined }:
\* reading a property of null throws a TypeError; a string has no property
\* message; null and a missing property give ""
MessageOf(parsed) ==
    IF parsed.kind = "null" THEN Thrown
    ELSE IF parsed.kind = "string" \/ parsed.member = <<>> THEN Returned("empty", <<>>, JNull)
    ELSE IF parsed.member[1].kind = "null" THEN Returned("empty", <<>>, JNull)
    ELSE Returned("value", <<>>, parsed.member[1])

\* try { JSON.parse(text) and the return built from it }
TryParse(text) ==
    LET r == JSONParse(text)
    IN  IF r.ok THEN MessageOf(r.value) ELSE Thrown

\* content.match(/\{[\s\S]*"message"[\s\S]*\}/): from the first opening
\* brace that has the key after it and a closing brace after the key, to the
\* last closing brace; <<>> when there is no match
JsonMatch(content) ==
    LET opens == {i \in 1..Len(content) : content[i] = tLBrace}
        closes == {k \in 1..Len(content) : content[k] = tRBrace}
        keys == {j \in 1..Len(content) : content[j] = tMessageKey}
        hits == {i \in opens : \E j \in keys : i < j /\ \E k \in closes : j < k}
    IN  IF hits = {} THEN <<>> ELSE SubSeq(content, Min(hits), Max(closes))

\* try { body } catch { handler }
Catch(body, handler) == IF body.threw THEN handler ELSE body

\* chatWithAI from "No tool calls - this is the final response"
finalResponse(content) ==
    IF content = <<>> THEN Returned("empty", <<>>, JNull)
    ELSE Catch(TryParse(content),
               IF JsonMatch(content) # <<>>
               THEN Catch(TryParse(JsonMatch(content)), Returned("raw", content, JNull))
               ELSE Returned("raw", content, JNull))

FinalResponse ==
    /\ applied = NoApplication
    /\ \E content \in ReplyTexts :
         applied' = [fn |-> "finalResponse", content |-> content,
                     result |-> finalResponse(content)]
    /\ Continue
    /\ UNCHANGED <<docVars, convexVars, entityVars, appVars>>

ReplyNext == FinalResponse

\* ------------------------------------------------------------------------
\* Specifications
\* ------------------------------------------------------------------------
Init ==
    /\ DocInit
    /\ ConvexInit
    /\ EntityInit
    /\ applied = NoApplication
    /\ ChatInit
    /\ WriteInit
    /\ ApplyInit
    /\ MeetingsInit
    /\ ops = 0
    /\ raised = NoError

\* the Document Store
Next == DocNext

Spec == Init /\ [][Next]_vars

\* the stores that delete: documents, entities and relationships
DeleteNext ==
    \/ HandleNewDocument
    \/ DeleteDocument
    \/ CreateEntityCall
    \/ CreateEntityReturn
    \/ CreateRelationshipCall
    \/ CreateRelationshipReturn
    \/ DeleteEntityCall
    \/ DeleteEntityRow
    \/ DeleteEntityRowFail
    \/ DeleteEntityReturn
    \/ DeleteRelationshipCall
    \/ DeleteRelationshipReturn

SpecDelete == Init /\ [][DeleteNext]_vars

\* the four writing operations of the Document Store, called from the
\* document list, over a database that may stop answering
PersistNext ==
    \/ HandleNewDocument
    \/ UpdateDocument
    \/ DeleteDocument
    \/ HandleRenameDocument
    \/ HandleMoveDocument
    \/ TursoFails
    \/ TursoRecovers

SpecPersist == Init /\ [][PersistNext]_vars

\* the content functions
SpecContent == Init /\ [][ContentNext]_vars

\* the persisted change log
SpecConvex == Init /\ [][ConvexNext]_vars

\* the Entity Graph Store
SpecEntity == Init /\ [][EntityNext]_vars

\* the chat pane
SpecChat == Init /\ [][ChatNext]_vars

\* the final reply of chatWithAI
SpecReply == Init /\ [][ReplyNext]_vars

\* the Document Store over writes in flight
SpecWrites == Init /\ [][WriteNext]_vars

\* the Apply handlers of the two panes
SpecApply == Init /\ [][ApplyNext]_vars

\* the desktop meetings data
SpecMeetings == Init /\ [][MeetingsNext]_vars

\* ------------------------------------------------------------------------
\* Properties of the Document Store (checked under Spec)
\* ------------------------------------------------------------------------
Titles(S) == {S.documents[k].title : k \in KeysOf(S)}

IsPending(S, changeId) ==
    /\ FindChange(S, changeId) # 0
    /\ S.pendingChanges[FindChange(S, changeId)].status = "pending"

ChangeOf(S, changeId) == S.pendingChanges[FindChange(S, changeId)]

\* the positions of the queue whose change goes from pending to applied
NewlyApplied ==
    {i \in 1..Len(docStore.pendingChanges) :
        /\ docStore.pendingChanges[i].status = "pending"
        /\ i <= Len(docStore'.pendingChanges)
        /\ docStore'.pendingChanges[i].status = "applied"}

\* C1: once a change is applied or dismissed, applyChange, dismissChange,
\* applyAllChanges and dismissAllChanges leave its status as it is, and a
\* call that applies no pending change leaves every document as it is.
C1_TerminalStatusIsFinal ==
    [][(ApplyChange \/ DismissChange \/ ApplyAllChanges \/ DismissAllChanges) =>
          /\ Len(docStore'.pendingChanges) = Len(docStore.pendingChanges)
          /\ \A i \in 1..Len(docStore.pendingChanges) :
                docStore.pendingChanges[i].status # "pending"
                    => docStore'.pendingChanges[i].status = docStore.pendingChanges[i].status
          /\ (NewlyApplied = {} => docStore'.documents = docStore.documents)]_vars

\* the queue holds exactly two pending changes, at positions i < j, and both
\* insert at the end of the same existing document
TwoPendingInsertsAtEnd(i, j) ==
    LET q == docStore.pendingChanges
    IN  /\ i < j
        /\ {k \in 1..Len(q) : q[k].status = "pending"} = {i, j}
        /\ q[i].operation = "insert" /\ q[j].operation = "insert"
        /\ q[i].target = tEnd /\ q[j].target = tEnd
        /\ q[i].documentId = q[j].documentId
        /\ HasDoc(docStore, q[i].documentId)

\* C3: applyAllChanges on two pending inserts at the end of one document,
\* with content A then B, leaves the document ending with A, a newline, B.
C3_ApplyAllInQueueOrder ==
    [][ApplyAllChanges =>
          \A i, j \in 1..Len(docStore.pendingChanges) :
              TwoPendingInsertsAtEnd(i, j) =>
                  LET q == docStore.pendingChanges
                      d == q[i].documentId
                  IN  /\ HasDoc(docStore', d)
                      /\ EndsWith(docStore'.documents[d].content,
                                  q[i].content \o <<"\n">> \o q[j].content)
                      /\ Len(docStore'.documents[d].content) =
                             Len(docStore.documents[d].content)
                                 + Len(q[i].content) + Len(q[j].content) + 2]_vars

C3_Witness ==
    \E d \in KeysOf(docStore) :
        /\ Len(docStore.pendingChanges) = 2
        /\ \A i \in 1..2 : /\ docStore.pendingChanges[i].status = "applied"
                           /\ docStore.pendingChanges[i].documentId = d
                           /\ docStore.pendingChanges[i].operation = "insert"
        /\ docStore.pendingChanges[1].content = contentA
        /\ docStore.pendingChanges[2].content = contentB
        /\ EndsWith(docStore.documents[d].content, <<"A", "\n", "B">>)

\* the change is a pending insert, replace or delete whose documentId is
\* not a key of the document map
TargetsMissingDocument(changeId) ==
    /\ IsPending(docStore, changeId)
    /\ ChangeOf(docStore, changeId).operation \in {"insert", "replace", "delete"}
    /\ ~HasDoc(docStore, ChangeOf(docStore, changeId).documentId)

LeavesDocumentsAndApplies(changeId) ==
    /\ docStore'.documents = docStore.documents
    /\ docStore'.docKeys = docStore.docKeys
    /\ ChangeOf(docStore', changeId).status = "applied"

\* C4 as claimed: applyChange on a pending insert, replace or delete whose
\* documentId is not in the document map leaves the documents unchanged and
\* marks the change applied.
C4_MissingTargetIsNoOp ==
    [][\A changeId \in ChangeIds(docStore) :
          (ApplyChangeOf(changeId) /\ TargetsMissingDocument(changeId))
              => LeavesDocumentsAndApplies(changeId)]_vars

\* C4 amended: the same, for a documentId that is not the sentinel "new"
\* (a change that carries the sentinel creates a document, whatever its
\* operation).
C4_MissingRealTargetIsNoOp ==
    [][\A changeId \in ChangeIds(docStore) :
          (/\ ApplyChangeOf(changeId)
           /\ TargetsMissingDocument(changeId)
           /\ ChangeOf(docStore, changeId).documentId # NewDoc)
              => LeavesDocumentsAndApplies(changeId)]_vars

C4_Witness ==
    \E i \in 1..Len(docStore.pendingChanges) :
        /\ docStore.pendingChanges[i].documentId = GhostDoc
        /\ docStore.pendingChanges[i].operation = "delete"
        /\ docStore.pendingChanges[i].status = "applied"
        /\ docStore.docKeys # <<>>

\* C5: no two documents of the map have the same path.
C5_PathUnique ==
    \A k1, k2 \in KeysOf(docStore) :
        (k1 # k2 /\ docStore.documents[k1].path # NullStr)
            => docStore.documents[k1].path # docStore.documents[k2].path

\* the title a new document gets when `base` is asked for: base itself, or
\* base with the smallest suffix from 2 on that is free
RECURSIVE Disambiguated(_, _, _)
Disambiguated(existingTitles, base, suffix) ==
    LET title == IF suffix = 1 THEN base ELSE base \o <<" ">> \o NatToStr(suffix)
    IN  IF title \notin existingTitles THEN title
        ELSE Disambiguated(existingTitles, base, suffix + 1)

CreatedKeys == KeysOf(docStore') \ KeysOf(docStore)

\* C6: a document created by New Document or by applying a create change
\* gets the requested title, or that title with the smallest free suffix
\* from 2 on when the title is taken; the other documents keep their titles.
C6_CreatedTitleIsDisambiguated ==
    [][/\ HandleNewDocument =>
            \A k \in CreatedKeys :
                docStore'.documents[k].title = Disambiguated(Titles(docStore), titleUntitled, 1)
       /\ \A changeId \in ChangeIds(docStore) :
            (/\ ApplyChangeOf(changeId)
             /\ IsPending(docStore, changeId)
             /\ ChangeOf(docStore, changeId).operation = "create")
                => \A k \in CreatedKeys :
                      /\ docStore'.documents[k].title =
                            Disambiguated(Titles(docStore), ChangeOf(docStore, changeId).target, 1)
                      /\ \A j \in KeysOf(docStore) :
                            docStore'.documents[j].title = docStore.documents[j].title]_vars

\* what C7 says of applyChange on a pending create change, but for the body
CreateAddsOneDocument(changeId) ==
    LET change == ChangeOf(docStore, changeId)
    IN  /\ Cardinality(CreatedKeys) = 1
        /\ \A k \in CreatedKeys :
              /\ docStore'.documents[k].title = change.target
              /\ docStore'.documents[k].id = k
              /\ docStore'.currentDocumentId = k
        /\ \A k \in KeysOf(docStore) :
              HasDoc(docStore', k) /\ docStore'.documents[k] = docStore.documents[k]
        /\ ChangeOf(docStore', changeId).status = "applied"

AppliesCreate(changeId) ==
    /\ ApplyChangeOf(changeId)
    /\ IsPending(docStore, changeId)
    /\ ChangeOf(docStore, changeId).operation = "create"

\* C7 as claimed: applying a pending create change adds exactly one document,
\* titled with the change's target, whose body is the change's content; it
\* becomes the current document, the others are unchanged, the change is
\* applied.
C7_CreateAddsDocumentWithContent ==
    [][\A changeId \in ChangeIds(docStore) :
          AppliesCreate(changeId) =>
              /\ CreateAddsOneDocument(changeId)
              /\ \A k \in CreatedKeys :
                    docStore'.documents[k].content = ChangeOf(docStore, changeId).content]_vars

\* C7 amended: the body is the change's content when that content does not
\* start with "---", and otherwise the content or the part of it that
\* follows the leading frontmatter block.
C7_CreateAddsDocumentWithBody ==
    [][\A changeId \in ChangeIds(docStore) :
          AppliesCreate(changeId) =>
              /\ CreateAddsOneDocument(changeId)
              /\ \A k \in CreatedKeys :
                    LET content == ChangeOf(docStore, changeId).content
                        body == docStore'.documents[k].content
                    IN  IF StartsWith(content, Dashes)
                        THEN EndsWith(content, body)
                        ELSE body = content]_vars

C7_Witness ==
    \E i \in 1..Len(docStore.pendingChanges), k \in KeysOf(docStore) :
        /\ docStore.pendingChanges[i].operation = "create"
        /\ docStore.pendingChanges[i].status = "applied"
        /\ docStore.pendingChanges[i].content = withFrontmatter
        /\ docStore.documents[k].title = docStore.pendingChanges[i].target
        /\ docStore.documents[k].content = <<"b">>
        /\ docStore.currentDocumentId = k
        /\ Len(docStore.docKeys) = 2

C9_SetPendingReplacesQueue ==
    [][\A changes \in SampleBatches :
          SetPendingChangesWith(changes) =>
              LET q == docStore'.pendingChanges
              IN  /\ Len(q) = Len(changes)
                  /\ \A i \in 1..Len(q) :
                        /\ q[i].status = "pending"
                        /\ Change(q[i].documentId, q[i].operation, q[i].target, q[i].content)
                               = changes[i]
                  /\ \A i, j \in 1..Len(q) : i # j => q[i].id # q[j].id
                  /\ docStore'.documents = docStore.documents
                  /\ docStore'.docKeys = docStore.docKeys
                  /\ docStore'.currentDocumentId = docStore.currentDocumentId]_vars

C9_Witness ==
    /\ batches = 2
    /\ Len(docStore.pendingChanges) = 2
    /\ \A i \in 1..2 : docStore.pendingChanges[i].status = "pending"
    /\ docStore.pendingChanges[1].id # docStore.pendingChanges[2].id
    /\ docStore.docKeys # <<>>

\* ------------------------------------------------------------------------
\* Properties of the persisted change log (checked under SpecConvex)
\* ------------------------------------------------------------------------
ResolutionsOf(db, changeId) ==
    {i \in 1..Len(db.changeResolutions) : db.changeResolutions[i].changeId = changeId}

\* the status getBySession reports for a change
ReportedStatus(db, changeId) ==
    LET report == getBySession(db, db.changes[changeId].sessionId)
        entries == UNION {{report[m].changes[j] : j \in 1..Len(report[m].changes)} :
                             m \in 1..Len(report)}
        hits == {e \in entries : e.change = changeId}
    IN  IF hits = {} THEN "missing" ELSE (CHOOSE e \in hits : TRUE).status

\* C2: every change has at most one resolution record; getBySession reports
\* a change as pending until its first resolution, then reports the status
\* of that resolution for ever.
C2_FirstResolutionWins ==
    [][/\ \A c \in 1..Len(convexDb'.changes) :
             /\ Cardinality(ResolutionsOf(convexDb', c)) <= 1
             /\ ResolutionsOf(convexDb', c) = {} => ReportedStatus(convexDb', c) = "pending"
       /\ \A c \in 1..Len(convexDb.changes) :
             ReportedStatus(convexDb, c) # "pending"
                 => ReportedStatus(convexDb', c) = ReportedStatus(convexDb, c)
       /\ \A c \in 1..Len(convexDb.changes), status \in {"applied", "dismissed"} :
             (ResolveChangeWith(c, status) /\ ReportedStatus(convexDb, c) = "pending")
                 => ReportedStatus(convexDb', c) = status
       /\ \A m \in 1..Len(convexDb.messages), status \in {"applied", "dismissed"} :
             ResolveAllWith(m, status) =>
                 \A c \in 1..Len(convexDb.changes) :
                     (convexDb.changes[c].messageId = m /\ ReportedStatus(convexDb, c) = "pending")
                         => ReportedStatus(convexDb', c) = status]_vars

C2_Witness ==
    \E c1, c2 \in 1..Len(convexDb.changes) :
        /\ convexDb.changes[c1].messageId = convexDb.changes[c2].messageId
        /\ ReportedStatus(convexDb, c1) = "applied"
        /\ ReportedStatus(convexDb, c2) = "dismissed"
        /\ Cardinality(ResolutionsOf(convexDb, c1)) = 1

\* ------------------------------------------------------------------------
\* Properties of the Entity Graph Store (checked under SpecEntity)
\* ------------------------------------------------------------------------
RelIds(rels) == {rels[i].id : i \in 1..Len(rels)}

Referencing(rels, id) == {i \in 1..Len(rels) : References(rels[i], id)}

AsSubject(rels, id) == {i \in 1..Len(rels) : rels[i].subject_id = id}

AsObject(rels, id) == {i \in 1..Len(rels) : rels[i].object_id = id}

\* what C10 says of the store after deleteEntity, but for the count
DeleteEntityCascades(entityId) ==
    LET before == entityStore.relationships
        after == entityStore'.relationships
    IN  /\ Referencing(after, entityId) = {}
        /\ \A i \in 1..Len(before) :
              ~References(before[i], entityId) => before[i].id \in RelIds(after)
        /\ \A i \in 1..Len(after) :
              \E j \in 1..Len(before) : before[j] = after[i]
        /\ entityId \notin DOMAIN entityStore'.entities

DeletesStoredEntity(entityId) ==
    /\ DeleteEntityReturnOf(entityId)
    /\ entityId \in DOMAIN entityStore.entities

\* C10 as claimed: deleteEntity on an entity that is the subject of N and
\* the object of M relationships removes exactly N + M relationships, all
\* that reference it and no other, and the entity.
C10_CascadeRemovesNPlusM ==
    [][\A entityId \in 1..nextEntityId :
          DeletesStoredEntity(entityId) =>
              /\ DeleteEntityCascades(entityId)
              /\ Len(entityStore.relationships) - Len(entityStore'.relationships)
                    = Cardinality(AsSubject(entityStore.relationships, entityId))
                        + Cardinality(AsObject(entityStore.relationships, entityId))]_vars

\* C10 amended: the relationships removed are exactly those that reference
\* the entity, each counted once: N + M less the relationships that have the
\* entity as subject and as object.  The persisted rows follow the same rule.
C10_CascadeRemovesReferencing ==
    [][\A entityId \in 1..nextEntityId :
          /\ DeletesStoredEntity(entityId) =>
                /\ DeleteEntityCascades(entityId)
                /\ Len(entityStore.relationships) - Len(entityStore'.relationships)
                      = Cardinality(AsSubject(entityStore.relationships, entityId))
                          + Cardinality(AsObject(entityStore.relationships, entityId))
                          - Cardinality(AsSubject(entityStore.relationships, entityId)
                                            \cap AsObject(entityStore.relationships, entityId))
          /\ DeleteEntityCallOf(entityId) =>
                /\ Referencing(entityDb'.relationships, entityId) = {}
                /\ Len(entityDb.relationships) - Len(entityDb'.relationships)
                      = Cardinality(Referencing(entityDb.relationships, entityId))
          /\ DeleteEntityRowOf(entityId) =>
                entityId \notin DOMAIN entityDb'.entities]_vars

\* an entity that was stored and is deleted, after it had a relationship to
\* itself, while a relationship between other entities is still stored
C10_Witness ==
    \E entityId \in 1..nextEntityId :
        /\ entityId \notin DOMAIN entityStore.entities
        /\ entityId \notin DOMAIN entityDb.entities
        /\ calls = {}
        /\ nextRelId = 2
        /\ Len(entityStore.relationships) = 1
        /\ ~References(entityStore.relationships[1], entityId)

\* ------------------------------------------------------------------------
\* Entity updates
\* ------------------------------------------------------------------------
\* new is old with the partial update u shallow-merged into it: property keys
\* u does not mention keep their values, keys of u.properties take the new
\* values, and the name changes only when u carries one
MergedInto(old, u, new) ==
    /\ "properties" \in DOMAIN u =>
          /\ \A k \in (DOMAIN old.properties) \ (DOMAIN u.properties) :
                k \in DOMAIN new.properties /\ new.properties[k] = old.properties[k]
          /\ \A k \in DOMAIN u.properties :
                k \in DOMAIN new.properties /\ new.properties[k] = u.properties[k]
    /\ "properties" \notin DOMAIN u => new.properties = old.properties
    /\ new.name = (IF "name" \in DOMAIN u THEN u.name ELSE old.name)

\* C11: updateEntity(id, {properties: P}) on an existing entity shallow-merges
\* P into the properties, in the persisted row (when the UPDATE runs) and in
\* the local store (when the call returns): keys P does not mention keep
\* their values, keys of P take the new values, the name changes only when a
\* name is given.
C11_UpdateMergesProperties ==
    [][\A c \in calls :
         /\ (/\ c.kind = "updateEntityWrite"
             /\ c \notin calls'
             /\ c.arg.id \in DOMAIN entityDb.entities)
            => MergedInto(entityDb.entities[c.arg.id], c.arg.updates,
                          entityDb'.entities[c.arg.id])
         /\ (/\ c.kind = "updateEntity"
             /\ c \notin calls'
             /\ c.arg.id \in DOMAIN entityStore.entities)
            => MergedInto(entityStore.entities[c.arg.id], c.arg.updates,
                          entityStore'.entities[c.arg.id])]_vars

\* C12: updateEntity on an id that has no entity row rejects with a not-found
\* error and changes nothing: a started operation that puts no call in flight
\* is that rejection, a rejection leaves the entity map, the relationship
\* list and the tables as they were, and no updateEntity call gets past
\* getEntity for an id without a row, so none reaches the UPDATE or the
\* set() that would add an entry for the id.
C12_UpdateMissingRejects ==
    [][/\ (ops' = ops + 1 /\ calls' = calls) => raised' = "Entity not found"
       /\ raised' = "Entity not found" => UNCHANGED <<entityStore, entityDb, calls>>
       /\ \A c \in calls' \ calls :
             c.kind = "updateEntityWrite" => c.arg.id \in DOMAIN entityDb.entities]_vars

\* an updateEntity call on a missing id has just been rejected, with an
\* entity in the store
C12_Witness ==
    /\ raised = "Entity not found"
    /\ DOMAIN entityStore.entities # {}

\* ------------------------------------------------------------------------
\* Deletes
\* ------------------------------------------------------------------------
\* a relationship id no relationship ever had
GhostRel == MaxRels + 1

\* lib/entities.ts deleteEntity: both DELETE statements
dbDeleteEntity(db, id) == dbDeleteEntityRow(dbDeleteRelationshipsOf(db, id), id)

\* deleting twice gives what deleting once gives, in every store
DeleteTwiceIsDeleteOnce ==
    /\ \A id \in KnownDocIds :
          deleteDocument(deleteDocument(docStore, id), id) = deleteDocument(docStore, id)
    /\ \A id \in KnownEntityIds :
          /\ storeDeleteEntity(storeDeleteEntity(entityStore, id), id)
                = storeDeleteEntity(entityStore, id)
          /\ dbDeleteEntity(dbDeleteEntity(entityDb, id), id) = dbDeleteEntity(entityDb, id)
    /\ \A id \in (1..nextRelId) \cup {GhostRel} :
          /\ storeDeleteRelationship(storeDeleteRelationship(entityStore, id), id)
                = storeDeleteRelationship(entityStore, id)
          /\ dbDeleteRelationship(dbDeleteRelationship(entityDb, id), id)
                = dbDeleteRelationship(entityDb, id)

\* deleting a document or a relationship that does not exist changes nothing
DeleteMissingDocOrRelIsNoOp ==
    /\ \A id \in KnownDocIds :
          ~HasDoc(docStore, id) => deleteDocument(docStore, id) = docStore
    /\ \A id \in (1..nextRelId) \cup {GhostRel} :
          /\ (\A i \in 1..Len(entityStore.relationships) :
                 entityStore.relationships[i].id # id)
             => storeDeleteRelationship(entityStore, id) = entityStore
          /\ (\A i \in 1..Len(entityDb.relationships) : entityDb.relationships[i].id # id)
             => dbDeleteRelationship(entityDb, id) = entityDb

NotReferencing(rels, id) == SelectSeq(rels, LAMBDA r : ~References(r, id))

C14_FrontmatterRoundTrip ==
    applied.fn = "roundTrip" => applied.serialized = applied.content

\* content starts with '---', optional whitespace, a newline, and holds a
\* later line that starts with '---'
StartsWithBlock(c) ==
    /\ StartsWith(c, Dashes)
    /\ \E i \in 3..(Len(c) - 1) :
          /\ c[i + 1] = "\n"
          /\ \A k \in 3..(i - 1) : IsWS(c[k + 1])
          /\ \E j \in (i + 1)..Len(c) : OccursAt(c, j, <<"\n">> \o Dashes)

\* contents an editor may hand to updateDocument
EditContents ==
    {headingT, contentA, withFrontmatter, <<>>, Dashes,
     Dashes \o <<"\n">> \o contentA,
     Dashes \o <<"\n", "\n">> \o Dashes \o <<"\n">> \o contentB}

SameFrontmatter(old, new) ==
    /\ new.frontmatter = old.frontmatter
    /\ new.frontmatterRaw = old.frontmatterRaw

\* updateDocument with a content that does not start with a block keeps the
\* frontmatter mapping and raw block, and the body becomes the content
UpdateKeepsFrontmatter ==
    \A id \in KeysOf(docStore), c \in EditContents :
        ~StartsWithBlock(c)
        => /\ SameFrontmatter(docStore.documents[id],
                              updateDocument(docStore, id, c).documents[id])
           /\ updateDocument(docStore, id, c).documents[id].content = c

\* the queued insert and replace changes that are pending on a stored document
PendingEdits ==
    {i \in 1..Len(docStore.pendingChanges) :
        /\ docStore.pendingChanges[i].status = "pending"
        /\ docStore.pendingChanges[i].operation \in {"insert", "replace"}
        /\ docStore.pendingChanges[i].documentId # NewDoc
        /\ HasDoc(docStore, docStore.pendingChanges[i].documentId)}

\* the document a change targets, after applyChange of that change
AfterApply(change) ==
    applyChange(<<docStore, nextDocId>>, change.id)[1].documents[change.documentId]

\* C15 as stated: updateDocument keeps the frontmatter unless the incoming
\* content starts with a frontmatter block, and applying an insert or replace
\* change never changes the frontmatter of its document.
C15_EditsKeepFrontmatter ==
    /\ UpdateKeepsFrontmatter
    /\ \A i \in PendingEdits :
          SameFrontmatter(docStore.documents[docStore.pendingChanges[i].documentId],
                          AfterApply(docStore.pendingChanges[i]))

\* C15 amended: updateDocument keeps the frontmatter unless the incoming
\* content starts with a frontmatter block, and applying an insert or replace
\* change keeps the frontmatter of its document unless the edited content
\* itself starts with a frontmatter block.
C15_EditsKeepFrontmatterUnlessBlock ==
    /\ UpdateKeepsFrontmatter
    /\ \A i \in PendingEdits :
          ~StartsWithBlock(applyChangeToContent(
               docStore.documents[docStore.pendingChanges[i].documentId].content,
               docStore.pendingChanges[i]))
          => SameFrontmatter(docStore.documents[docStore.pendingChanges[i].documentId],
                             AfterApply(docStore.pendingChanges[i]))

\* a document that has a frontmatter block and an applied insert or replace
\* change that edited it
C15_Witness ==
    \E i \in 1..Len(docStore.pendingChanges) :
        /\ docStore.pendingChanges[i].status = "applied"
        /\ docStore.pendingChanges[i].operation \in {"insert", "replace"}
        /\ HasDoc(docStore, docStore.pendingChanges[i].documentId)
        /\ docStore.documents[docStore.pendingChanges[i].documentId].frontmatterRaw
              = <<"k", ":", " ", "v">>
        /\ docStore.documents[docStore.pendingChanges[i].documentId].content
              \notin {<<"b">>, <<>>}

\* ------------------------------------------------------------------------
\* Content locator
\* ------------------------------------------------------------------------
\* offset in Render(o) where heading k starts
HeadingStart(o, k) == Len(Render([o EXCEPT !.headings = SubSeq(@, 1, k - 1)]))

\* index of the first heading of o whose title contains term, or 0
FirstTitled(o, term) ==
    MinOr({k \in 1..Len(o.headings) : Includes(ToLower(o.headings[k].title), term)}, 0)

\* offset of the first heading after heading k that is of the same or a
\* shallower level, or the length of the document
SectionStop(o, k) ==
    LET J == {j \in (k + 1)..Len(o.headings) : o.headings[j].level <= o.headings[k].level}
    IN  IF J = {} THEN Len(Render(o)) ELSE HeadingStart(o, Min(J))

RECURSIVE Words(_)
\* the words of s: its maximal runs of characters other than spaces
Words(s) ==
    IF s = <<>> THEN <<>>
    ELSE IF s[1] = " " THEN Words(Tail(s))
    ELSE IF IndexOf(s, <<" ">>) = -1 THEN <<s>>
    ELSE <<Substring(s, 0, IndexOf(s, <<" ">>))>> \o Words(SliceFrom(s, IndexOf(s, <<" ">>)))

RECURSIVE JoinWords(_)
JoinWords(ws) ==
    IF ws = <<>> THEN <<>>
    ELSE IF Len(ws) = 1 THEN ws[1]
    ELSE ws[1] \o <<" ">> \o JoinWords(Tail(ws))

\* the lower-cased target without the words 'replace', 'delete' and 'the'
CleanedTarget(target) ==
    JoinWords(SelectSeq(Words(ToLower(target)),
                        LAMBDA w : w \notin {kwReplace, kwDelete, kwThe}))

\* the section of heading k replaced by newContent
SectionReplaced(o, k, newContent) ==
    Substring(Render(o), 0, HeadingStart(o, k)) \o newContent
        \o SliceFrom(Render(o), SectionStop(o, k))

\* C16: with a target containing 'replace' or 'delete', findAndReplace picks
\* the first heading whose text contains the target without the words
\* 'replace', 'delete' and 'the', and replaces exactly the span from the start
\* of that heading to the next heading of the same or a shallower level (or
\* the end of the document); what is before and after stays.
C16_ReplacesSectionOfFirstMatch ==
    (/\ applied.fn = "findAndReplace"
     /\ \/ Includes(ToLower(applied.target), kwReplace)
        \/ Includes(ToLower(applied.target), kwDelete)
     /\ FirstTitled(applied.outline, CleanedTarget(applied.target)) # 0)
    => applied.result
         = SectionReplaced(applied.outline,
                           FirstTitled(applied.outline, CleanedTarget(applied.target)),
                           applied.newContent)

\* the lower-cased target without the word w
WithoutWord(target, w) ==
    JoinWords(SelectSeq(Words(ToLower(target)), LAMBDA x : x # w))

\* the "after" rule applies: the keyword is there and a heading holds the rest
AfterHits(o, target) ==
    /\ Includes(ToLower(target), kwAfter)
    /\ FirstTitled(o, WithoutWord(target, kwAfter)) # 0

\* the "before" rule applies: the keyword is there and the rest is found
BeforeHits(o, target) ==
    /\ Includes(ToLower(target), kwBefore)
    /\ FirstTitled(o, WithoutWord(target, kwBefore)) # 0

\* C17: with a target containing 'after' whose remainder is contained in a
\* heading, findInsertionPoint returns, for the first such heading, the offset
\* of the next heading of the same or a shallower level, or the length of the
\* document when none follows; deeper headings do not end the section.
C17_AfterReturnsSectionEnd ==
    (applied.fn = "findInsertionPoint" /\ AfterHits(applied.outline, applied.target))
    => applied.offset
         = SectionStop(applied.outline,
                       FirstTitled(applied.outline, WithoutWord(applied.target, kwAfter)))

\* "after End" on a document where the first End heading (level 2) is followed
\* by a deeper heading, then by a heading of level 2, then by another one: the
\* offset is the start of the third heading
C17_Witness ==
    /\ applied.fn = "findInsertionPoint"
    /\ applied.target = <<"a", "f", "t", "e", "r", " ", "E", "n", "d">>
    /\ Len(applied.outline.headings) = 3
    /\ applied.outline.headings[1] = [level |-> 2, title |-> <<"E", "n", "d">>]
    /\ applied.outline.headings[2].level = 3
    /\ applied.outline.headings[3] = [level |-> 2, title |-> <<"E", "n", "d">>]
    /\ applied.offset = HeadingStart(applied.outline, 3)
    /\ applied.offset < Len(applied.content)

\* the offset the cascade after, before, end, beginning / start, append gives
CascadeOffset(o, target) ==
    IF AfterHits(o, target)
    THEN SectionStop(o, FirstTitled(o, WithoutWord(target, kwAfter)))
    ELSE IF BeforeHits(o, target)
    THEN HeadingStart(o, FirstTitled(o, WithoutWord(target, kwBefore)))
    ELSE IF Includes(ToLower(target), kwEnd)
    THEN Len(Render(o))
    ELSE IF Includes(ToLower(target), kwBeginning) \/ Includes(ToLower(target), kwStart)
    THEN (IF o.headings = <<>> THEN 0
          ELSE HeadingStart(o, 1) + Len(RenderHeading(o.headings[1])))
    ELSE Len(Render(o))

\* C18: findInsertionPoint is the cascade after, before, end, beginning /
\* start: a rule whose keyword is present but whose search finds nothing
\* falls through to the later rules; 'end' gives the document length;
\* 'beginning' or 'start' gives the offset just after the closing tag of the
\* first heading, or 0 without a heading; otherwise the document length.
C18_RulesCascade ==
    applied.fn = "findInsertionPoint"
    => applied.offset = CascadeOffset(applied.outline, applied.target)

\* "before Z start" on a document with a heading: the before rule finds
\* nothing and the start rule answers with the end of the first heading
C18_Witness ==
    /\ applied.fn = "findInsertionPoint"
    /\ applied.target
         = <<"b", "e", "f", "o", "r", "e", " ", "Z", " ", "s", "t", "a", "r", "t">>
    /\ applied.outline.prefix # <<>>
    /\ applied.outline.headings # <<>>
    /\ applied.offset = Len(applied.outline.prefix)
                          + Len(RenderHeading(applied.outline.headings[1]))

\* the target names no section to replace: it holds neither keyword, or no
\* heading contains the cleaned target
NamesNoSection(o, target) ==
    \/ /\ ~Includes(ToLower(target), kwReplace)
       /\ ~Includes(ToLower(target), kwDelete)
    \/ FirstTitled(o, CleanedTarget(target)) = 0

Stands(S, w) ==
    CASE w.kind = "create" ->
            /\ HasDoc(S, w.id)
            /\ S.documents[w.id].path = w.path
            /\ S.documents[w.id].title = w.title
            /\ RowContent(S.documents[w.id]) = w.content
      [] w.kind = "update" ->
            /\ HasDoc(S, w.id)
            /\ RowContent(S.documents[w.id]) = w.content
      [] w.kind = "delete" -> ~HasDoc(S, w.id)
      [] OTHER ->
            HasDoc(S, w.id)
            => /\ Given(w.title) => S.documents[w.id].title = w.title
               /\ Given(w.path) => S.documents[w.id].path = w.path

\* C20: when the write of updateDocument, createDocument, deleteDocument or
\* updateDocumentMetadata fails, nothing is raised to the caller and the local
\* state keeps the mutation the operation made; operations after a failure
\* raise nothing either.
C20_PersistFailureAbsorbed ==
    /\ raised = NoError
    /\ \A i \in 1..Len(logged) :
          (\A j \in (i + 1)..Len(logged) : logged[j].id # logged[i].id)
          => Stands(docStore, logged[i])

\* a document whose INSERT failed is still in the local store, and a later
\* edit of it has changed the local body although its write failed too
C20_Witness ==
    /\ Len(logged) = 1
    /\ logged[1].kind = "update"
    /\ HasDoc(docStore, logged[1].id)
    /\ logged[1].id \notin DOMAIN docDb
    /\ docStore.documents[logged[1].id].content = headingT
    /\ ~tursoUp

\* ------------------------------------------------------------------------
\* The persisted change log is append-only (checked under SpecConvex)
\* ------------------------------------------------------------------------
IsPrefix(s, t) == Len(s) <= Len(t) /\ SubSeq(t, 1, Len(s)) = s

\* C21: over sendUserMessage, sendAssistantMessage, resolveChange and
\* resolveAllChangesForMessage every message and every change record keeps
\* its position and its fields; a resolution only adds resolution records
\* and leaves the messages and the changes as they were.
C21_LogIsAppendOnly ==
    [][/\ IsPrefix(convexDb.messages, convexDb'.messages)
       /\ IsPrefix(convexDb.changes, convexDb'.changes)
       /\ IsPrefix(convexDb.changeResolutions, convexDb'.changeResolutions)
       /\ convexDb'.changeResolutions # convexDb.changeResolutions
             => /\ convexDb'.messages = convexDb.messages
                /\ convexDb'.changes = convexDb.changes]_vars

\* a described change of an assistant message has been resolved after a
\* later message was sent
C21_Witness ==
    /\ Len(convexDb.messages) = 2
    /\ convexDb.messages[1].role = "assistant"
    /\ convexDb.messages[2].role = "user"
    /\ Len(convexDb.changes) = 2
    /\ convexDb.changes[2].description = contentB
    /\ Len(convexDb.changeResolutions) = 2
    /\ convexDb.changeResolutions[1].changeId = 2

\* ------------------------------------------------------------------------
\* Properties of the chat pane (checked under SpecChat)
\* ------------------------------------------------------------------------
\* C22: every mutation the handler executes after a chatWithAI call was
\* queued by a tool call of that call, and the buffer is empty when a
\* chatWithAI call starts.
C22_BufferDrainedPerCall ==
    /\ \A i \in 1..Len(chat.todo) : chat.todo[i].queuedBy = chat.call
    /\ (chat.pc = "chatting" /\ chat.iteration = 0) => pendingMutations = <<>>

\* ------------------------------------------------------------------------
\* Properties of the final reply (checked under SpecReply)
\* ------------------------------------------------------------------------
\* the texts that are one JSON value, built from the grammar
RECURSIVE ValueTexts(_)
ValueTexts(depth) ==
    IF depth = 0 THEN {<<tNull>>, <<tString>>, <<tLBrace, tRBrace>>}
    ELSE ValueTexts(depth - 1)
         \cup {<<tLBrace, tMessageKey>> \o v \o <<tRBrace>> : v \in ValueTexts(depth - 1)}

\* the texts that are a JSON object
ObjectTexts == {v \in ValueTexts(MaxReplyLen) : v[1] = tLBrace}

\* the text is a JSON object, or holds a JSON object with the key "message"
ParsesAsObject(content) ==
    \/ content \in ObjectTexts
    \/ \E i, j \in 1..Len(content) :
          /\ i < j
          /\ SubSeq(content, i, j) \in ObjectTexts
          /\ content[i + 1] = tMessageKey

\* C23: a final reply that parses neither as a JSON object nor as an
\* embedded object with "message" is returned as the message, raw (the
\* message "" has the text <<>>), with no changes; no error is thrown for
\* any reply.
C23_UnparsableReplyIsReturnedRaw ==
    applied # NoApplication
    => /\ ~applied.result.threw
       /\ ~ParsesAsObject(applied.content)
            => /\ applied.result.kind \in {"raw", "empty"}
               /\ applied.result.text = applied.content
               /\ applied.result.changes = "undefined"

\* ------------------------------------------------------------------------
\* Properties of the writes in flight (checked under SpecWrites)
\* ------------------------------------------------------------------------
\* every document of the store has its row
AllPersisted == \A d \in KeysOf(docStore) : d \in DOMAIN docDb

\* C24: after batch applies whose persistence calls have all completed and
\* none of which failed, the persisted content of every document is the
\* serialization of its local frontmatter and body.
C24_BatchLeavesStoreAndRowsEqual ==
    (/\ inflight = <<>>
     /\ ~writeFailed
     /\ edits = 0
     /\ AllPersisted)
    => \A d \in KeysOf(docStore) : docDb[d].content = RowContent(docStore.documents[d])

\* C25: when an UPDATE replaces the content of a row, document_versions
\* holds a snapshot of that document with the content the row had just
\* before the UPDATE.
C25_UpdateSnapshotsPreviousContent ==
    lastUpdate # NoUpdate
    => \E v \in 1..Len(versions) :
          /\ versions[v].document_id = lastUpdate.document_id
          /\ versions[v].content = lastUpdate.before

\* ------------------------------------------------------------------------
\* Referential integrity of the Entity Graph Store (checked under SpecEntity)
\* ------------------------------------------------------------------------
\* C26: in every reachable state of the entity store the subject_id and the
\* object_id of every relationship are ids of entities of the store.
C26_RelationshipsNeverDangle ==
    \A i \in 1..Len(entityStore.relationships) :
        /\ entityStore.relationships[i].subject_id \in DOMAIN entityStore.entities
        /\ entityStore.relationships[i].object_id \in DOMAIN entityStore.entities

\* ------------------------------------------------------------------------
\* Properties of the Apply handlers (checked under SpecApply)
\* ------------------------------------------------------------------------
\* C27: over every interleaving of the Apply handlers of the chat pane and
\* of the banner, the store mutation of each persisted change is executed at
\* most once.
C27_ChangeAppliedAtMostOnce ==
    \A c \in DOMAIN executions : executions[c] <= 1

\* ------------------------------------------------------------------------
\* Well-formedness of the document map (checked under Spec)
\* ------------------------------------------------------------------------
\* C28: in every reachable state each entry of the document map has the id
\* of its key and a defined path and title; updateDocument with an id that
\* is not in the map adds no entry.
C28_DocumentMapWellFormed ==
    \A k \in KeysOf(docStore) :
        /\ docStore.documents[k].id = k
        /\ docStore.documents[k].path # NullStr
        /\ docStore.documents[k].title # NullStr

\* ------------------------------------------------------------------------
\* Inserts keep the content (checked under SpecContent)
\* ------------------------------------------------------------------------
\* C29: findInsertionPoint returns an offset p with 0 <= p <= Len(content),
\* and an insert yields the first p characters of the content, a newline,
\* the inserted text, and the rest of the content: the original is kept in
\* order and the length grows by 1 + Len(text).
C29_InsertKeepsContent ==
    /\ applied.fn \in {"findInsertionPoint", "applyInsert"}
         => applied.offset \in 0..Len(applied.content)
    /\ applied.fn = "applyInsert"
         => /\ Len(applied.result) = Len(applied.content) + 1 + Len(applied.text)
            /\ SubSeq(applied.result, 1, applied.offset)
                 = SubSeq(applied.content, 1, applied.offset)
            /\ applied.result[applied.offset + 1] = "\n"
            /\ SubSeq(applied.result, applied.offset + 2,
                      applied.offset + 1 + Len(applied.text)) = applied.text
            /\ SubSeq(applied.result, applied.offset + 2 + Len(applied.text),
                      Len(applied.result))
                 = SubSeq(applied.content, applied.offset + 1, Len(applied.content))

\* a text inserted strictly inside the content, at the end of a section
C29_Witness ==
    /\ applied.fn = "applyInsert"
    /\ applied.target = <<"a", "f", "t", "e", "r", " ", "E", "n", "d">>
    /\ applied.text = <<"N">>
    /\ applied.offset > 0
    /\ applied.offset < Len(applied.content)

\* ------------------------------------------------------------------------
\* Properties of the desktop meetings data (checked under SpecMeetings)
\* ------------------------------------------------------------------------
\* C30: the in-memory meetings data changes only when a call's save has
\* succeeded; a failed save leaves it unchanged and returns a failure; and
\* the in-memory data reflects every update whose save succeeded, also when
\* calls overlap.
C30_MeetingUpdatesNotLost ==
    [][/\ meetingsData' # meetingsData => (saveResult'.success /\ saveResult' # saveResult)
       /\ SaveFails => (meetingsData' = meetingsData /\ ~saveResult'.success)
       /\ meetingsData' = serial']_vars
====
